---- MODULE Spec2Model ----
(***************************************************************************)
(* A model of the NFL compiled -> v1 schema converter                      *)
(* (docs/scripts/convert-compiled-nfl.js and its earlier revisions).       *)
(*                                                                         *)
(* JavaScript values are tagged records:                                   *)
(*   undefined  [t |-> "undef"]        null   [t |-> "null"]               *)
(*   NaN        [t |-> "nan"]          string [t |-> "str", s |-> chars]   *)
(*   number     [t |-> "num", n |-> mantissa, sc |-> decimal places]       *)
(*   array      [t |-> "arr", el |-> <<values>>]                           *)
(*   object     [t |-> "obj", kv |-> <<[k |-> key, v |-> value], ...>>]    *)
(* A string VALUE is a sequence of one-character strings, so that parsing  *)
(* is computed character by character.  Object KEYS are atomic strings;    *)
(* an object keeps its keys in insertion order, as Object.keys does.       *)
(***************************************************************************)
EXTENDS Integers, Sequences, FiniteSets, TLC

VARIABLES
    pc,            \* position of the running call
    arg,           \* argument of the coercer under study
    ret,           \* its return value
    input,         \* convertCompiledNFLObject: the raw document
    HOME_ABBR,     \* team context
    AWAY_ABBR,
    SEASON_YEAR,
    now,           \* the wall clock read by new Date()
    done,          \* mappers that have returned, in call order
    part,          \* what each mapper returned
    warnings,      \* console.warn lines, in order
    compiled       \* the value returned by the call (or Undef)

vars == <<pc, arg, ret, input, HOME_ABBR, AWAY_ABBR, SEASON_YEAR, now,
          done, part, warnings, compiled>>

-----------------------------------------------------------------------------
(* Bounds of the model *)

MaxRows == 2
MaxNow == 2

-----------------------------------------------------------------------------
(* JavaScript values *)

Undef == [t |-> "undef"]
Null == [t |-> "null"]
NaN == [t |-> "nan"]
Str(s) == [t |-> "str", s |-> s]
Arr(el) == [t |-> "arr", el |-> el]
Obj(kv) == [t |-> "obj", kv |-> kv]
KV(k, v) == [k |-> k, v |-> v]

Min(S) == CHOOSE x \in S : \A y \in S : x <= y

RECURSIVE Pow10(_)
Pow10(k) == IF k = 0 THEN 1 ELSE 10 * Pow10(k - 1)

\* A decimal number n / 10^sc in canonical form (no trailing zero digit
\* after the point), so that equal numbers are equal records.
RECURSIVE Num(_, _)
Num(n, sc) ==
    IF sc > 0 /\ n % 10 = 0 THEN Num(n \div 10, sc - 1)
    ELSE [t |-> "num", n |-> n, sc |-> sc]

IntV(n) == Num(n, 0)

IsNullish(v) == v.t \in {"undef", "null"}

\* ToBoolean: what `!v`, `v && ...` and `v || ...` test.
Truthy(v) ==
    CASE v.t \in {"undef", "null", "nan"} -> FALSE
      [] v.t = "str" -> v.s # <<>>
      [] v.t = "num" -> v.n # 0
      [] v.t = "bool" -> v.b
      [] OTHER -> TRUE

Or2(a, b) == IF Truthy(a) THEN a ELSE b                    \* a || b
Or3(a, b, c) == Or2(Or2(a, b), c)
Or4(a, b, c, d) == Or2(Or3(a, b, c), d)
Nc2(a, b) == IF IsNullish(a) THEN b ELSE a                 \* a ?? b
Nc3(a, b, c) == Nc2(Nc2(a, b), c)

-----------------------------------------------------------------------------
(* String literals of the source, as character sequences: s_<name> *)
s_000Z == <<".", "0", "0", "0", "Z">>
s_01_01T00_00_0 == <<"-", "0", "1", "-", "0", "1", "T", "0", "0", ":", "0", "0", ":", "0">>
s_11_16_9_05_AM == <<"1", "1", "/", "1", "6", " ", "9", ":", "0", "5", " ", "A", "M">>
s_abc == <<"a", "b", "c">>
s_ats == <<"a", "t", "s">>
s_ats_cover == <<"a", "t", "s", "_", "c", "o", "v", "e", "r">>
s_ats_predictions == <<"a", "t", "s", "_", "p", "r", "e", "d", "i", "c", "t", "i", "o", "n", "s">>
s_ATS_Predictions == <<"A", "T", "S", " ", "P", "r", "e", "d", "i", "c", "t", "i", "o", "n", "s">>
s_ATS_Situational_Trends ==
    <<"A", "T", "S", " ", "S", "i", "t", "u", "a", "t", "i", "o", "n", "a", "l", " ", "T", "r",
      "e", "n", "d", "s">>
s_ats_situational_trends_last_season ==
    <<"a", "t", "s", "_", "s", "i", "t", "u", "a", "t", "i", "o", "n", "a", "l", "_", "t", "r",
      "e", "n", "d", "s", "_", "l", "a", "s", "t", "_", "s", "e", "a", "s", "o", "n">>
s_ats_team_trends == <<"a", "t", "s", "_", "t", "e", "a", "m", "_", "t", "r", "e", "n", "d", "s">>
s_ATS_Team_Trends == <<"A", "T", "S", " ", "T", "e", "a", "m", " ", "T", "r", "e", "n", "d", "s">>
s_Away == <<"A", "w", "a", "y">>
s_away == <<"a", "w", "a", "y">>
s_away_injuries == <<"a", "w", "a", "y", "_", "i", "n", "j", "u", "r", "i", "e", "s">>
s_away_miles == <<"a", "w", "a", "y", "_", "m", "i", "l", "e", "s">>
s_away_opponent == <<"a", "w", "a", "y", "_", "o", "p", "p", "o", "n", "e", "n", "t">>
s_away_rankings == <<"a", "w", "a", "y", "_", "r", "a", "n", "k", "i", "n", "g", "s">>
s_away_season_performance_last_season ==
    <<"a", "w", "a", "y", "_", "s", "e", "a", "s", "o", "n", "_", "p", "e", "r", "f", "o", "r",
      "m", "a", "n", "c", "e", "_", "l", "a", "s", "t", "_", "s", "e", "a", "s", "o", "n">>
s_away_similar_games ==
    <<"a", "w", "a", "y", "_", "s", "i", "m", "i", "l", "a", "r", "_", "g", "a", "m", "e", "s">>
s_away_team == <<"a", "w", "a", "y", "_", "t", "e", "a", "m">>
s_away_team_travel_miles ==
    <<"a", "w", "a", "y", "_", "t", "e", "a", "m", "_", "t", "r", "a", "v", "e", "l", "_", "m",
      "i", "l", "e", "s">>
s_Away_vs_Home == <<"A", "w", "a", "y", " ", "v", "s", ".", " ", "H", "o", "m", "e", " ", "|", " ">>
s_away_vs_home == <<"a", "w", "a", "y", "_", "v", "s", "_", "h", "o", "m", "e", "_">>
s_away_vs_home_away ==
    <<"a", "w", "a", "y", "_", "v", "s", "_", "h", "o", "m", "e", "_", "a", "w", "a", "y">>
s_Away_vs_Home_TB ==
    <<"A", "w", "a", "y", " ", "v", "s", ".", " ", "H", "o", "m", "e", " ", "|", " ", "T", "B">>
s_buf == <<"b", "u", "f">>
s_BUF == <<"B", "U", "F">>
s_Buf == <<"B", "u", "f">>
s_BUF_3 == <<"B", "U", "F", " ", "-", "3">>
s_buffalo == <<"b", "u", "f", "f", "a", "l", "o">>
s_buffalo_injuries ==
    <<"b", "u", "f", "f", "a", "l", "o", " ", "i", "n", "j", "u", "r", "i", "e", "s">>
s_buffalo_season_performance ==
    <<"b", "u", "f", "f", "a", "l", "o", " ", "s", "e", "a", "s", "o", "n", " ", "p", "e", "r",
      "f", "o", "r", "m", "a", "n", "c", "e">>
s_buffalo_vs_tampa_bay ==
    <<"b", "u", "f", "f", "a", "l", "o", " ", "v", "s", " ", "t", "a", "m", "p", "a", " ", "b",
      "a", "y", " ">>
s_comparison_table ==
    <<"c", "o", "m", "p", "a", "r", "i", "s", "o", "n", "_", "t", "a", "b", "l", "e">>
s_conf_rank == <<"c", "o", "n", "f", "_", "r", "a", "n", "k">>
s_Conf_Rank == <<"C", "o", "n", "f", " ", "R", "a", "n", "k">>
s_current == <<"c", "u", "r", "r", "e", "n", "t">>
s_Current == <<"C", "u", "r", "r", "e", "n", "t">>
s_current_spread == <<"c", "u", "r", "r", "e", "n", "t", "_", "s", "p", "r", "e", "a", "d">>
s_current_total == <<"c", "u", "r", "r", "e", "n", "t", "_", "t", "o", "t", "a", "l">>
s_data == <<"d", "a", "t", "a">>
s_date == <<"d", "a", "t", "e">>
s_Decision_Tree ==
    <<"D", "e", "c", "i", "s", "i", "o", "n", " ", "T", "r", "e", "e", " ", "(", "%", ")">>
s_Defensive_Efficiency ==
    <<"D", "e", "f", "e", "n", "s", "i", "v", "e", " ", "E", "f", "f", "i", "c", "i", "e", "n",
      "c", "y">>
s_defensive_efficiency_last_season ==
    <<"d", "e", "f", "e", "n", "s", "i", "v", "e", "_", "e", "f", "f", "i", "c", "i", "e", "n",
      "c", "y", "_", "l", "a", "s", "t", "_", "s", "e", "a", "s", "o", "n">>
s_Defensive_Stat_Comparison ==
    <<"D", "e", "f", "e", "n", "s", "i", "v", "e", " ", "S", "t", "a", "t", " ", "C", "o", "m",
      "p", "a", "r", "i", "s", "o", "n">>
s_defensive_stat_comparison_last_season ==
    <<"d", "e", "f", "e", "n", "s", "i", "v", "e", "_", "s", "t", "a", "t", "_", "c", "o", "m",
      "p", "a", "r", "i", "s", "o", "n", "_", "l", "a", "s", "t", "_", "s", "e", "a", "s", "o",
      "n">>
s_details == <<"d", "e", "t", "a", "i", "l", "s">>
s_dualgamelog == <<"d", "u", "a", "l", "g", "a", "m", "e", "l", "o", "g">>
s_dualgamelog_No_season_performance_sections_found ==
    <<"[", "d", "u", "a", "l", "g", "a", "m", "e", "l", "o", "g", "]", " ", "N", "o", " ", "s",
      "e", "a", "s", "o", "n", " ", "p", "e", "r", "f", "o", "r", "m", "a", "n", "c", "e", " ",
      "s", "e", "c", "t", "i", "o", "n", "s", " ", "f", "o", "u", "n", "d", ".">>
s_efficiencystats == <<"e", "f", "f", "i", "c", "i", "e", "n", "c", "y", "s", "t", "a", "t", "s">>
s_empty == <<" ", "@", " ">>
s_empty_2 == <<"-", "-">>
s_false == <<"f", "a", "l", "s", "e">>
s_generated_at == <<"g", "e", "n", "e", "r", "a", "t", "e", "d", "_", "a", "t">>
s_h == <<"h">>
s_h_a_n == <<"h", " ", "a", " ", "n">>
s_han == <<"h", "a", "n">>
s_head_to_head_since_1985_season ==
    <<"h", "e", "a", "d", "_", "t", "o", "_", "h", "e", "a", "d", "_", "s", "i", "n", "c", "e",
      "_", "1", "9", "8", "5", "_", "s", "e", "a", "s", "o", "n">>
s_head_to_head_since_1985_season_2 ==
    <<"h", "e", "a", "d", " ", "t", "o", " ", "h", "e", "a", "d", " ", "s", "i", "n", "c", "e",
      " ", "1", "9", "8", "5", " ", "s", "e", "a", "s", "o", "n">>
s_headtohead == <<"h", "e", "a", "d", "t", "o", "h", "e", "a", "d">>
s_high == <<"h", "i", "g", "h">>
s_High == <<"H", "i", "g", "h">>
s_historic_line_movement ==
    <<"h", "i", "s", "t", "o", "r", "i", "c", "_", "l", "i", "n", "e", "_", "m", "o", "v", "e",
      "m", "e", "n", "t">>
s_historic_line_movement_3 ==
    <<"h", "i", "s", "t", "o", "r", "i", "c", "_", "l", "i", "n", "e", "_", "m", "o", "v", "e",
      "m", "e", "n", "t", "_", "3">>
s_history == <<"h", "i", "s", "t", "o", "r", "y">>
s_Home == <<"H", "o", "m", "e">>
s_home == <<"h", "o", "m", "e">>
s_home_away_neutral ==
    <<"h", "o", "m", "e", "_", "a", "w", "a", "y", "_", "n", "e", "u", "t", "r", "a", "l">>
s_home_injuries == <<"h", "o", "m", "e", "_", "i", "n", "j", "u", "r", "i", "e", "s">>
s_home_rankings == <<"h", "o", "m", "e", "_", "r", "a", "n", "k", "i", "n", "g", "s">>
s_home_season_performance_last_season ==
    <<"h", "o", "m", "e", "_", "s", "e", "a", "s", "o", "n", "_", "p", "e", "r", "f", "o", "r",
      "m", "a", "n", "c", "e", "_", "l", "a", "s", "t", "_", "s", "e", "a", "s", "o", "n">>
s_home_similar_games ==
    <<"h", "o", "m", "e", "_", "s", "i", "m", "i", "l", "a", "r", "_", "g", "a", "m", "e", "s">>
s_home_team == <<"h", "o", "m", "e", "_", "t", "e", "a", "m">>
s_home_vs_away == <<"h", "o", "m", "e", "_", "v", "s", "_", "a", "w", "a", "y", "_">>
s_home_vs_away_defensive_efficiency_last_season ==
    <<"h", "o", "m", "e", "_", "v", "s", "_", "a", "w", "a", "y", "_", "d", "e", "f", "e", "n",
      "s", "i", "v", "e", "_", "e", "f", "f", "i", "c", "i", "e", "n", "c", "y", "_", "l", "a",
      "s", "t", "_", "s", "e", "a", "s", "o", "n">>
s_home_vs_away_offensive_efficiency_last_season ==
    <<"h", "o", "m", "e", "_", "v", "s", "_", "a", "w", "a", "y", "_", "o", "f", "f", "e", "n",
      "s", "i", "v", "e", "_", "e", "f", "f", "i", "c", "i", "e", "n", "c", "y", "_", "l", "a",
      "s", "t", "_", "s", "e", "a", "s", "o", "n">>
s_home_vs_home_home ==
    <<"h", "o", "m", "e", "_", "v", "s", "_", "h", "o", "m", "e", "_", "h", "o", "m", "e">>
s_I_R == <<"I", "-", "R">>
s_INJURED_RESERVE == <<"I", "N", "J", "U", "R", "E", "D", " ", "R", "E", "S", "E", "R", "V", "E">>
s_injury == <<"i", "n", "j", "u", "r", "y">>
s_injuryreport == <<"i", "n", "j", "u", "r", "y", "r", "e", "p", "o", "r", "t">>
s_IR == <<"I", "R">>
s_J_Doe == <<"J", ".", " ", "D", "o", "e">>
s_key_defensive_stats ==
    <<"k", "e", "y", " ", "d", "e", "f", "e", "n", "s", "i", "v", "e", " ", "s", "t", "a", "t",
      "s">>
s_key_defensive_stats_last_season ==
    <<"k", "e", "y", "_", "d", "e", "f", "e", "n", "s", "i", "v", "e", "_", "s", "t", "a", "t",
      "s", "_", "l", "a", "s", "t", "_", "s", "e", "a", "s", "o", "n">>
s_key_offensive_stats ==
    <<"k", "e", "y", " ", "o", "f", "f", "e", "n", "s", "i", "v", "e", " ", "s", "t", "a", "t",
      "s">>
s_key_offensive_stats_last_season ==
    <<"k", "e", "y", "_", "o", "f", "f", "e", "n", "s", "i", "v", "e", "_", "s", "t", "a", "t",
      "s", "_", "l", "a", "s", "t", "_", "s", "e", "a", "s", "o", "n">>
s_kicking == <<"k", "i", "c", "k", "i", "n", "g">>
s_label == <<"l", "a", "b", "e", "l">>
s_last == <<"l", "a", "s", "t">>
s_Last == <<"L", "a", "s", "t">>
s_last3_away == <<"l", "a", "s", "t", "3", "_", "a", "w", "a", "y">>
s_last3_home == <<"l", "a", "s", "t", "3", "_", "h", "o", "m", "e">>
s_Last_3_Games == <<"L", "a", "s", "t", " ", "3", " ", "G", "a", "m", "e", "s", " ", "|", " ">>
s_last_season == <<"_", "l", "a", "s", "t", "_", "s", "e", "a", "s", "o", "n">>
s_league == <<"l", "e", "a", "g", "u", "e">>
s_Line_Movement == <<"L", "i", "n", "e", " ", "M", "o", "v", "e", "m", "e", "n", "t">>
s_low == <<"l", "o", "w">>
s_Low == <<"L", "o", "w">>
s_m1 == <<"m", "1">>
s_matchup_id == <<"m", "a", "t", "c", "h", "u", "p", "_", "i", "d">>
s_matchup_key == <<"m", "a", "t", "c", "h", "u", "p", "_", "k", "e", "y">>
s_Matchup_Menu == <<"M", "a", "t", "c", "h", "u", "p", " ", "M", "e", "n", "u", ":", " ">>
s_matchup_menu == <<"m", "a", "t", "c", "h", "u", "p", " ", "m", "e", "n", "u">>
s_Matchup_Menu_TB_BUF ==
    <<"M", "a", "t", "c", "h", "u", "p", " ", "M", "e", "n", "u", ":", " ", "T", "B", " ", "@",
      " ", "B", "U", "F">>
s_matchupId == <<"m", "a", "t", "c", "h", "u", "p", "I", "d">>
s_matchupstats == <<"m", "a", "t", "c", "h", "u", "p", "s", "t", "a", "t", "s">>
s_matchupstats_kicking_mapping_issue ==
    <<"[", "m", "a", "t", "c", "h", "u", "p", "s", "t", "a", "t", "s", "]", " ", "k", "i", "c",
      "k", "i", "n", "g", " ", "m", "a", "p", "p", "i", "n", "g", " ", "i", "s", "s", "u", "e",
      ":">>
s_matchupstats_other_mapping_issue ==
    <<"[", "m", "a", "t", "c", "h", "u", "p", "s", "t", "a", "t", "s", "]", " ", "o", "t", "h",
      "e", "r", " ", "m", "a", "p", "p", "i", "n", "g", " ", "i", "s", "s", "u", "e", ":">>
s_matchupstats_overall_mapping_issue ==
    <<"[", "m", "a", "t", "c", "h", "u", "p", "s", "t", "a", "t", "s", "]", " ", "o", "v", "e",
      "r", "a", "l", "l", " ", "m", "a", "p", "p", "i", "n", "g", " ", "i", "s", "s", "u", "e",
      ":">>
s_matchupstats_passing_mapping_issue ==
    <<"[", "m", "a", "t", "c", "h", "u", "p", "s", "t", "a", "t", "s", "]", " ", "p", "a", "s",
      "s", "i", "n", "g", " ", "m", "a", "p", "p", "i", "n", "g", " ", "i", "s", "s", "u", "e",
      ":">>
s_matchupstats_penalties_mapping_issue ==
    <<"[", "m", "a", "t", "c", "h", "u", "p", "s", "t", "a", "t", "s", "]", " ", "p", "e", "n",
      "a", "l", "t", "i", "e", "s", " ", "m", "a", "p", "p", "i", "n", "g", " ", "i", "s", "s",
      "u", "e", ":">>
s_matchupstats_rushing_mapping_issue ==
    <<"[", "m", "a", "t", "c", "h", "u", "p", "s", "t", "a", "t", "s", "]", " ", "r", "u", "s",
      "h", "i", "n", "g", " ", "m", "a", "p", "p", "i", "n", "g", " ", "i", "s", "s", "u", "e",
      ":">>
s_matchupstats_turnovers_mapping_issue ==
    <<"[", "m", "a", "t", "c", "h", "u", "p", "s", "t", "a", "t", "s", "]", " ", "t", "u", "r",
      "n", "o", "v", "e", "r", "s", " ", "m", "a", "p", "p", "i", "n", "g", " ", "i", "s", "s",
      "u", "e", ":">>
s_matchupTitle == <<"m", "a", "t", "c", "h", "u", "p", "T", "i", "t", "l", "e">>
s_meta == <<"m", "e", "t", "a">>
s_MIA == <<"M", "I", "A">>
s_model == <<"m", "o", "d", "e", "l">>
s_Model == <<"M", "o", "d", "e", "l">>
s_Money_Line_History ==
    <<"M", "o", "n", "e", "y", " ", "L", "i", "n", "e", " ", "H", "i", "s", "t", "o", "r", "y">>
s_money_line_predictions ==
    <<"m", "o", "n", "e", "y", "_", "l", "i", "n", "e", "_", "p", "r", "e", "d", "i", "c", "t",
      "i", "o", "n", "s">>
s_money_line_situational_trends ==
    <<"m", "o", "n", "e", "y", " ", "l", "i", "n", "e", " ", "s", "i", "t", "u", "a", "t", "i",
      "o", "n", "a", "l", " ", "t", "r", "e", "n", "d", "s">>
s_money_line_trends_last_season ==
    <<"m", "o", "n", "e", "y", "_", "l", "i", "n", "e", "_", "t", "r", "e", "n", "d", "s", "_",
      "l", "a", "s", "t", "_", "s", "e", "a", "s", "o", "n">>
s_moneylineanalysis ==
    <<"m", "o", "n", "e", "y", "l", "i", "n", "e", "a", "n", "a", "l", "y", "s", "i", "s">>
s_moneylinemovement ==
    <<"m", "o", "n", "e", "y", "l", "i", "n", "e", "m", "o", "v", "e", "m", "e", "n", "t">>
s_moneylinemovement_Line_Movement_moneylinemovement_not_found ==
    <<"[", "m", "o", "n", "e", "y", "l", "i", "n", "e", "m", "o", "v", "e", "m", "e", "n", "t",
      "]", " ", "L", "i", "n", "e", " ", "M", "o", "v", "e", "m", "e", "n", "t", " ", "m", "o",
      "n", "e", "y", "l", "i", "n", "e", "m", "o", "v", "e", "m", "e", "n", "t", " ", "n", "o",
      "t", " ", "f", "o", "u", "n", "d", ".">>
s_moneylinemovement_Matchup_Menu_moneylinemovement_not_found ==
    <<"[", "m", "o", "n", "e", "y", "l", "i", "n", "e", "m", "o", "v", "e", "m", "e", "n", "t",
      "]", " ", "M", "a", "t", "c", "h", "u", "p", " ", "M", "e", "n", "u", " ", "m", "o", "n",
      "e", "y", "l", "i", "n", "e", "m", "o", "v", "e", "m", "e", "n", "t", " ", "n", "o", "t",
      " ", "f", "o", "u", "n", "d", ".">>
s_moneylinemovement_Money_Line_History_section_not_found_or_empty ==
    <<"[", "m", "o", "n", "e", "y", "l", "i", "n", "e", "m", "o", "v", "e", "m", "e", "n", "t",
      "]", " ", "M", "o", "n", "e", "y", " ", "L", "i", "n", "e", " ", "H", "i", "s", "t", "o",
      "r", "y", " ", "s", "e", "c", "t", "i", "o", "n", " ", "n", "o", "t", " ", "f", "o", "u",
      "n", "d", " ", "o", "r", " ", "e", "m", "p", "t", "y", ".">>
s_n_100 == <<"-", "1", "0", "0">>
s_n_100_2 == <<"+", "1", "0", "0">>
s_n_12 == <<"1", "2">>
s_n_120 == <<"-", "1", "2", "0">>
s_n_12_12_2021 == <<"1", "2", "/", "1", "2", "/", "2", "0", "2", "1">>
s_n_130 == <<"+", "1", "3", "0">>
s_n_140 == <<"-", "1", "4", "0">>
s_n_150 == <<"-", "1", "5", "0">>
s_n_150_2 == <<"+", "1", "5", "0">>
s_n_155 == <<"-", "1", "5", "5">>
s_n_160 == <<"-", "1", "6", "0">>
s_n_170 == <<"-", "1", "7", "0">>
s_n_175 == <<"-", "1", "7", "5">>
s_n_1_024 == <<"1", ",", "0", "2", "4">>
s_n_1_234 == <<"1", ",", "2", "3", "4">>
s_n_24_5 == <<"2", "4", ".", "5">>
s_n_3 == <<"#", "3">>
s_n_31_10 == <<"3", "1", "-", "1", "0">>
s_n_36_52 == <<"3", "6", ".", "5", "2", "%">>
s_n_36_52_14 == <<"3", "6", ".", "5", "2", "%", " ", "(", "#", "1", "4", ")">>
s_n_3_1 == <<"3", "-", "1">>
s_n_3_5 == <<"-", "3", ".", "5">>
s_n_44_5 == <<"4", "4", ".", "5">>
s_n_4_1_3 == <<"4", ".", "1", " ", "(", "#", "3", ")">>
s_n_55_5 == <<"5", "5", ".", "5", "%">>
s_n_5_1 == <<"5", ".", "1">>
s_n_7_1 == <<"7", ".", "1">>
s_n_a == <<"n", "/", "a">>
s_name == <<"n", "a", "m", "e">>
s_NaN == <<"N", "a", "N">>
s_Neutral == <<"N", "e", "u", "t", "r", "a", "l">>
s_NFL == <<"N", "F", "L">>
s_Nov_16_12_18_PM == <<"N", "o", "v", " ", "1", "6", " ", "1", "2", ":", "1", "8", " ", "P", "M">>
s_Nov_17_1_00_AM == <<"N", "o", "v", " ", "1", "7", " ", "1", ":", "0", "0", " ", "A", "M">>
s_null == <<"n", "u", "l", "l">>
s_object_Object == <<"[", "o", "b", "j", "e", "c", "t", " ", "O", "b", "j", "e", "c", "t", "]">>
s_Offensive_Efficiency ==
    <<"O", "f", "f", "e", "n", "s", "i", "v", "e", " ", "E", "f", "f", "i", "c", "i", "e", "n",
      "c", "y">>
s_offensive_efficiency_last_season ==
    <<"o", "f", "f", "e", "n", "s", "i", "v", "e", "_", "e", "f", "f", "i", "c", "i", "e", "n",
      "c", "y", "_", "l", "a", "s", "t", "_", "s", "e", "a", "s", "o", "n">>
s_Offensive_Stat_Comparison ==
    <<"O", "f", "f", "e", "n", "s", "i", "v", "e", " ", "S", "t", "a", "t", " ", "C", "o", "m",
      "p", "a", "r", "i", "s", "o", "n">>
s_offensive_stat_comparison_last_season ==
    <<"o", "f", "f", "e", "n", "s", "i", "v", "e", "_", "s", "t", "a", "t", "_", "c", "o", "m",
      "p", "a", "r", "i", "s", "o", "n", "_", "l", "a", "s", "t", "_", "s", "e", "a", "s", "o",
      "n">>
s_open == <<"o", "p", "e", "n">>
s_Open == <<"O", "p", "e", "n">>
s_Opening_Line == <<"O", "p", "e", "n", "i", "n", "g", " ", "L", "i", "n", "e">>
s_opponent == <<"o", "p", "p", "o", "n", "e", "n", "t">>
s_other == <<"o", "t", "h", "e", "r">>
s_ou == <<"o", "u">>
s_ou_result == <<"o", "u", "_", "r", "e", "s", "u", "l", "t">>
s_OUT == <<"O", "U", "T">>
s_Over_Under_Predictions ==
    <<"O", "v", "e", "r", "/", "U", "n", "d", "e", "r", " ", "P", "r", "e", "d", "i", "c", "t",
      "i", "o", "n", "s">>
s_Over_Under_Situational_Trends ==
    <<"O", "v", "e", "r", "/", "U", "n", "d", "e", "r", " ", "S", "i", "t", "u", "a", "t", "i",
      "o", "n", "a", "l", " ", "T", "r", "e", "n", "d", "s">>
s_over_under_team_trends ==
    <<"o", "v", "e", "r", "_", "u", "n", "d", "e", "r", "_", "t", "e", "a", "m", "_", "t", "r",
      "e", "n", "d", "s">>
s_Over_Under_Team_Trends ==
    <<"O", "v", "e", "r", "/", "U", "n", "d", "e", "r", " ", "T", "e", "a", "m", " ", "T", "r",
      "e", "n", "d", "s">>
s_overall == <<"o", "v", "e", "r", "a", "l", "l">>
s_overunderanalysis ==
    <<"o", "v", "e", "r", "u", "n", "d", "e", "r", "a", "n", "a", "l", "y", "s", "i", "s">>
s_overunderlinemovement ==
    <<"o", "v", "e", "r", "u", "n", "d", "e", "r", "l", "i", "n", "e", "m", "o", "v", "e", "m",
      "e", "n", "t">>
s_overunderlinemovement_Matchup_Menu_overunderlinemovement_not_found ==
    <<"[", "o", "v", "e", "r", "u", "n", "d", "e", "r", "l", "i", "n", "e", "m", "o", "v", "e",
      "m", "e", "n", "t", "]", " ", "M", "a", "t", "c", "h", "u", "p", " ", "M", "e", "n", "u",
      " ", "o", "v", "e", "r", "u", "n", "d", "e", "r", "l", "i", "n", "e", "m", "o", "v", "e",
      "m", "e", "n", "t", " ", "n", "o", "t", " ", "f", "o", "u", "n", "d", ".">>
s_overunderlinemovement_Totals_History_not_found_or_empty ==
    <<"[", "o", "v", "e", "r", "u", "n", "d", "e", "r", "l", "i", "n", "e", "m", "o", "v", "e",
      "m", "e", "n", "t", "]", " ", "T", "o", "t", "a", "l", "s", " ", "H", "i", "s", "t", "o",
      "r", "y", " ", "n", "o", "t", " ", "f", "o", "u", "n", "d", " ", "o", "r", " ", "e", "m",
      "p", "t", "y", ".">>
s_overview == <<"o", "v", "e", "r", "v", "i", "e", "w">>
s_passing == <<"p", "a", "s", "s", "i", "n", "g">>
s_penalties == <<"p", "e", "n", "a", "l", "t", "i", "e", "s">>
s_pick == <<"p", "i", "c", "k">>
s_Pick == <<"P", "i", "c", "k">>
s_Points_Game == <<"P", "o", "i", "n", "t", "s", "/", "G", "a", "m", "e">>
s_pointspreadanalysis ==
    <<"p", "o", "i", "n", "t", "s", "p", "r", "e", "a", "d", "a", "n", "a", "l", "y", "s", "i",
      "s">>
s_pointspreadlinemovement ==
    <<"p", "o", "i", "n", "t", "s", "p", "r", "e", "a", "d", "l", "i", "n", "e", "m", "o", "v",
      "e", "m", "e", "n", "t">>
s_pointspreadlinemovement_Matchup_Menu_pointspreadlinemovement_not_found ==
    <<"[", "p", "o", "i", "n", "t", "s", "p", "r", "e", "a", "d", "l", "i", "n", "e", "m", "o",
      "v", "e", "m", "e", "n", "t", "]", " ", "M", "a", "t", "c", "h", "u", "p", " ", "M", "e",
      "n", "u", " ", "p", "o", "i", "n", "t", "s", "p", "r", "e", "a", "d", "l", "i", "n", "e",
      "m", "o", "v", "e", "m", "e", "n", "t", " ", "n", "o", "t", " ", "f", "o", "u", "n", "d",
      ".">>
s_pointspreadlinemovement_Spread_History_not_found_or_empty ==
    <<"[", "p", "o", "i", "n", "t", "s", "p", "r", "e", "a", "d", "l", "i", "n", "e", "m", "o",
      "v", "e", "m", "e", "n", "t", "]", " ", "S", "p", "r", "e", "a", "d", " ", "H", "i", "s",
      "t", "o", "r", "y", " ", "n", "o", "t", " ", "f", "o", "u", "n", "d", " ", "o", "r", " ",
      "e", "m", "p", "t", "y", ".">>
s_pos == <<"p", "o", "s">>
s_powerratings == <<"p", "o", "w", "e", "r", "r", "a", "t", "i", "n", "g", "s">>
s_predictions == <<"p", "r", "e", "d", "i", "c", "t", "i", "o", "n", "s">>
s_Predictive == <<"P", "r", "e", "d", "i", "c", "t", "i", "v", "e">>
s_price_1 == <<"p", "r", "i", "c", "e", "_", "1">>
s_price_2 == <<"p", "r", "i", "c", "e", "_", "2">>
s_price_label_1 == <<"p", "r", "i", "c", "e", "_", "l", "a", "b", "e", "l", "_", "1">>
s_price_label_2 == <<"p", "r", "i", "c", "e", "_", "l", "a", "b", "e", "l", "_", "2">>
s_PROB == <<"P", "R", "O", "B">>
s_PROBABLE == <<"P", "R", "O", "B", "A", "B", "L", "E">>
s_QUESTION == <<"Q", "U", "E", "S", "T", "I", "O", "N">>
s_QUESTIONABLE == <<"Q", "U", "E", "S", "T", "I", "O", "N", "A", "B", "L", "E">>
s_Questionable == <<"Q", "u", "e", "s", "t", "i", "o", "n", "a", "b", "l", "e">>
s_range_away == <<"r", "a", "n", "g", "e", "_", "a", "w", "a", "y">>
s_range_home == <<"r", "a", "n", "g", "e", "_", "h", "o", "m", "e">>
s_range_spread == <<"r", "a", "n", "g", "e", "_", "s", "p", "r", "e", "a", "d">>
s_range_total == <<"r", "a", "n", "g", "e", "_", "t", "o", "t", "a", "l">>
s_rank == <<"r", "a", "n", "k">>
s_Rank == <<"R", "a", "n", "k">>
s_rating == <<"r", "a", "t", "i", "n", "g">>
s_Rating == <<"R", "a", "t", "i", "n", "g">>
s_raw == <<"r", "a", "w">>
s_record == <<"r", "e", "c", "o", "r", "d">>
s_Record == <<"R", "e", "c", "o", "r", "d">>
s_rushing == <<"r", "u", "s", "h", "i", "n", "g">>
s_score == <<"s", "c", "o", "r", "e">>
s_scoring_and_yardage_last_season ==
    <<"s", "c", "o", "r", "i", "n", "g", "_", "a", "n", "d", "_", "y", "a", "r", "d", "a", "g",
      "e", "_", "l", "a", "s", "t", "_", "s", "e", "a", "s", "o", "n">>
s_Scoring_Yardage ==
    <<"S", "c", "o", "r", "i", "n", "g", " ", "&", " ", "Y", "a", "r", "d", "a", "g", "e">>
s_season == <<"s", "e", "a", "s", "o", "n">>
s_Season == <<"S", "e", "a", "s", "o", "n", " ", "|", " ">>
s_season_away == <<"s", "e", "a", "s", "o", "n", "_", "a", "w", "a", "y">>
s_Season_BUF == <<"S", "e", "a", "s", "o", "n", " ", "|", " ", "B", "U", "F">>
s_season_home == <<"s", "e", "a", "s", "o", "n", "_", "h", "o", "m", "e">>
s_season_performance ==
    <<"s", "e", "a", "s", "o", "n", " ", "p", "e", "r", "f", "o", "r", "m", "a", "n", "c", "e">>
s_sections == <<"s", "e", "c", "t", "i", "o", "n", "s">>
s_similargamesanalysis ==
    <<"s", "i", "m", "i", "l", "a", "r", "g", "a", "m", "e", "s", "a", "n", "a", "l", "y", "s",
      "i", "s">>
s_situationaltrends ==
    <<"s", "i", "t", "u", "a", "t", "i", "o", "n", "a", "l", "t", "r", "e", "n", "d", "s">>
s_split_stat == <<"s", "p", "l", "i", "t", "_", "s", "t", "a", "t">>
s_Split_Stat == <<"S", "p", "l", "i", "t", " ", "|", " ", "S", "t", "a", "t">>
s_spread == <<"s", "p", "r", "e", "a", "d">>
s_Spread_History == <<"S", "p", "r", "e", "a", "d", " ", "H", "i", "s", "t", "o", "r", "y">>
s_spread_history == <<"s", "p", "r", "e", "a", "d", "_", "h", "i", "s", "t", "o", "r", "y">>
s_stat == <<"s", "t", "a", "t">>
s_Stat == <<"S", "t", "a", "t">>
s_statsplits == <<"s", "t", "a", "t", "s", "p", "l", "i", "t", "s">>
s_status == <<"s", "t", "a", "t", "u", "s">>
s_tampa_bay == <<"t", "a", "m", "p", "a", " ", "b", "a", "y">>
s_tampa_bay_injuries ==
    <<"t", "a", "m", "p", "a", " ", "b", "a", "y", " ", "i", "n", "j", "u", "r", "i", "e", "s">>
s_tampa_bay_season_performance ==
    <<"t", "a", "m", "p", "a", " ", "b", "a", "y", " ", "s", "e", "a", "s", "o", "n", " ", "p",
      "e", "r", "f", "o", "r", "m", "a", "n", "c", "e">>
s_tampa_bay_vs_buffalo ==
    <<"t", "a", "m", "p", "a", " ", "b", "a", "y", " ", "v", "s", " ", "b", "u", "f", "f", "a",
      "l", "o", " ">>
s_tampa_bayvsbuffalo_defensive_efficiency ==
    <<"t", "a", "m", "p", "a", " ", "b", "a", "y", "v", "s", "b", "u", "f", "f", "a", "l", "o",
      " ", "d", "e", "f", "e", "n", "s", "i", "v", "e", " ", "e", "f", "f", "i", "c", "i", "e",
      "n", "c", "y">>
s_tampa_bayvsbuffalo_offensive_efficiency ==
    <<"t", "a", "m", "p", "a", " ", "b", "a", "y", "v", "s", "b", "u", "f", "f", "a", "l", "o",
      " ", "o", "f", "f", "e", "n", "s", "i", "v", "e", " ", "e", "f", "f", "i", "c", "i", "e",
      "n", "c", "y">>
s_tb == <<"t", "b">>
s_TB == <<"T", "B">>
s_Tb == <<"T", "b">>
s_TB_BUF == <<"T", "B", " ", "@", " ", "B", "U", "F">>
s_teamA_rankings == <<"t", "e", "a", "m", "A", "_", "r", "a", "n", "k", "i", "n", "g", "s">>
s_teamB_rankings == <<"t", "e", "a", "m", "B", "_", "r", "a", "n", "k", "i", "n", "g", "s">>
s_time_stamp == <<"t", "i", "m", "e", " ", "s", "t", "a", "m", "p">>
s_timestamp == <<"t", "i", "m", "e", "s", "t", "a", "m", "p">>
s_total == <<"t", "o", "t", "a", "l">>
s_Totals_History == <<"T", "o", "t", "a", "l", "s", " ", "H", "i", "s", "t", "o", "r", "y">>
s_totals_history == <<"t", "o", "t", "a", "l", "s", "_", "h", "i", "s", "t", "o", "r", "y">>
s_travel_analysis == <<"t", "r", "a", "v", "e", "l", "_", "a", "n", "a", "l", "y", "s", "i", "s">>
s_travelanalysis == <<"t", "r", "a", "v", "e", "l", "a", "n", "a", "l", "y", "s", "i", "s">>
s_trends_last_season ==
    <<"t", "r", "e", "n", "d", "s", "_", "l", "a", "s", "t", "_", "s", "e", "a", "s", "o", "n">>
s_true == <<"t", "r", "u", "e">>
s_turnovers == <<"t", "u", "r", "n", "o", "v", "e", "r", "s">>
s_Turnovers_Penalties_TOP ==
    <<"T", "u", "r", "n", "o", "v", "e", "r", "s", ",", " ", "P", "e", "n", "a", "l", "t", "i",
      "e", "s", " ", "&", " ", "T", "O", "P">>
s_turnovers_penalties_top_last_season ==
    <<"t", "u", "r", "n", "o", "v", "e", "r", "s", "_", "p", "e", "n", "a", "l", "t", "i", "e",
      "s", "_", "t", "o", "p", "_", "l", "a", "s", "t", "_", "s", "e", "a", "s", "o", "n">>
s_undefined == <<"u", "n", "d", "e", "f", "i", "n", "e", "d">>
s_updated == <<"u", "p", "d", "a", "t", "e", "d">>
s_value == <<"v", "a", "l", "u", "e">>
s_Value == <<"V", "a", "l", "u", "e">>
s_value_rank == <<"v", "a", "l", "u", "e", " ", "r", "a", "n", "k">>
s_value_rank_1 == <<"v", "a", "l", "u", "e", " ", "r", "a", "n", "k", " ", "1">>
s_week == <<"w", "e", "e", "k">>
s_win_loss_team_trends ==
    <<"w", "i", "n", "_", "l", "o", "s", "s", "_", "t", "e", "a", "m", "_", "t", "r", "e", "n",
      "d", "s">>
s_Win_Loss_Team_Trends ==
    <<"W", "i", "n", "-", "L", "o", "s", "s", " ", "T", "e", "a", "m", " ", "T", "r", "e", "n",
      "d", "s">>
s_winner == <<"w", "i", "n", "n", "e", "r">>
s_winner_home_away_neutral ==
    <<"w", "i", "n", "n", "e", "r", "_", "h", "o", "m", "e", "_", "a", "w", "a", "y", "_", "n",
      "e", "u", "t", "r", "a", "l">>
s_WR == <<"W", "R">>
s_Yards_Game == <<"Y", "a", "r", "d", "s", " ", "/", " ", "G", "a", "m", "e">>
s_Doubtful == <<"D", "o", "u", "b", "t", "f", "u", "l">>
s_Out == <<"O", "u", "t">>
s_140 == <<"1", "4", "0">>
s_130 == <<"1", "3", "0">>
s_CURRENT == <<"C", "U", "R", "R", "E", "N", "T">>
s_Current_padded == <<" ", "C", "u", "r", "r", "e", "n", "t", " ">>
s_KC == <<"K", "C">>
s_DEN == <<"D", "E", "N">>
s_n_4 == <<"-", "4">>
s_moneyline_history ==
    <<"m", "o", "n", "e", "y", "l", "i", "n", "e", "_", "h", "i", "s", "t", "o", "r", "y">>
s_moneylinehistory ==
    <<"m", "o", "n", "e", "y", "l", "i", "n", "e", "h", "i", "s", "t", "o", "r", "y">>
s_Money_Line == <<"M", "o", "n", "e", "y", " ", "L", "i", "n", "e">>
\* end of the string literals

-----------------------------------------------------------------------------
(* Characters and strings *)

Digits == {"0", "1", "2", "3", "4", "5", "6", "7", "8", "9"}
DigitSeq == <<"0", "1", "2", "3", "4", "5", "6", "7", "8", "9">>
UpperSeq == <<"A", "B", "C", "D", "E", "F", "G", "H", "I", "J", "K", "L", "M",
              "N", "O", "P", "Q", "R", "S", "T", "U", "V", "W", "X", "Y", "Z">>
LowerSeq == <<"a", "b", "c", "d", "e", "f", "g", "h", "i", "j", "k", "l", "m",
              "n", "o", "p", "q", "r", "s", "t", "u", "v", "w", "x", "y", "z">>
Uppers == {UpperSeq[i] : i \in 1..26}
Lowers == {LowerSeq[i] : i \in 1..26}
Letters == Uppers \cup Lowers
Spaces == {" "}                                            \* \s
DigitOrDot == Digits \cup {"."}                            \* [\d.]

IndexIn(seq, c) == CHOOSE i \in 1..Len(seq) : seq[i] = c
DigitVal(c) == IndexIn(DigitSeq, c) - 1
LowerChar(c) == IF c \in Uppers THEN LowerSeq[IndexIn(UpperSeq, c)] ELSE c
UpperChar(c) == IF c \in Lowers THEN UpperSeq[IndexIn(LowerSeq, c)] ELSE c

toLowerCase(s) == [i \in 1..Len(s) |-> LowerChar(s[i])]
toUpperCase(s) == [i \in 1..Len(s) |-> UpperChar(s[i])]

Sub(s, i, j) == IF i > j THEN <<>> ELSE SubSeq(s, i, j)

\* How many characters of class C follow from position i.
SpanLen(s, i, C) ==
    LET stop == {j \in i..Len(s) : s[j] \notin C}
    IN  IF stop = {} THEN (IF i > Len(s) THEN 0 ELSE Len(s) - i + 1)
        ELSE Min(stop) - i

trim(s) ==
    LET keep == {j \in 1..Len(s) : s[j] \notin Spaces}
    IN  IF keep = {} THEN <<>>
        ELSE Sub(s, Min(keep), CHOOSE j \in keep : \A k \in keep : k <= j)

Without(s, C) == SelectSeq(s, LAMBDA c : c \notin C)       \* s.replace(/C/g, '')

StartsAt(s, i, lit) ==
    /\ i + Len(lit) - 1 <= Len(s)
    /\ \A k \in 1..Len(lit) : s[i + k - 1] = lit[k]

includes(s, lit) == \E i \in 1..(Len(s) + 1) : StartsAt(s, i, lit)
startsWith(s, lit) == StartsAt(s, 1, lit)

RECURSIVE DigitsToNat(_)
DigitsToNat(ds) ==
    IF ds = <<>> THEN 0
    ELSE 10 * DigitsToNat(Sub(ds, 1, Len(ds) - 1)) + DigitVal(ds[Len(ds)])

RECURSIVE NatToDigits(_)
NatToDigits(n) ==
    IF n < 10 THEN <<DigitSeq[n + 1]>>
    ELSE NatToDigits(n \div 10) \o <<DigitSeq[(n % 10) + 1]>>

\* String(n).padStart(2, '0') of a non-negative integer
Pad2(n) == IF n < 10 THEN <<"0">> \o NatToDigits(n) ELSE NatToDigits(n)

\* Number(x) of a text made of digits and dots only.
NumberOfDigitsDots(x) ==
    LET dots == {j \in 1..Len(x) : x[j] = "."}
    IN  IF Cardinality(dots) > 1 \/ Len(x) - Cardinality(dots) = 0 THEN NaN
        ELSE IF dots = {} THEN IntV(DigitsToNat(x))
        ELSE LET d == CHOOSE j \in dots : TRUE
                 frac == Sub(x, d + 1, Len(x))
             IN  Num(DigitsToNat(Sub(x, 1, d - 1) \o frac), Len(frac))

Negate(v) == IF v.t = "num" THEN Num(0 - v.n, v.sc) ELSE v

\* Number(s) of a string.  The decimal grammar: optional sign, digits with
\* an optional point.  (Exponent, hex and Infinity literals are not drawn
\* by any input set of this model.)
NumberOfString_body(s, signed, body) ==
    IF s = <<>> THEN IntV(0)
    ELSE IF SpanLen(body, 1, DigitOrDot) # Len(body) THEN NaN
    ELSE IF signed /\ s[1] = "-" THEN Negate(NumberOfDigitsDots(body))
    ELSE NumberOfDigitsDots(body)

NumberOfString_trimmed(s, signed) ==
    NumberOfString_body(s, signed, IF signed THEN Sub(s, 2, Len(s)) ELSE s)

NumberOfString(s0) ==
    NumberOfString_trimmed(trim(s0), trim(s0) # <<>> /\ trim(s0)[1] \in {"+", "-"})

\* isNaN(n) ? null : n
NullIfNaN(n) == IF n.t = "nan" THEN Null ELSE n

\* parseInt(s, 10): leading white space, optional sign, the longest run of
\* digits; NaN when there is no digit.
parseInt_digits(s, signed, from, k) ==
    IF k = 0 THEN NaN
    ELSE IF signed /\ s[1] = "-"
    THEN IntV(0 - DigitsToNat(Sub(s, from, from + k - 1)))
    ELSE IntV(DigitsToNat(Sub(s, from, from + k - 1)))

parseInt_signed(s, signed) ==
    parseInt_digits(s, signed, IF signed THEN 2 ELSE 1,
                    SpanLen(s, IF signed THEN 2 ELSE 1, Digits))

parseInt_stripped(s) ==
    parseInt_signed(s, s # <<>> /\ s[1] \in {"+", "-"})

parseInt(s0) ==
    parseInt_stripped(Sub(s0, SpanLen(s0, 1, Spaces) + 1, Len(s0)))

-----------------------------------------------------------------------------
(* Value coercion *)

parseMoney_noStrip(v) ==
    IF IsNullish(v) THEN Null
    ELSE IF v.t = "num" THEN v
    ELSE IF v.t = "str" THEN NullIfNaN(parseInt(v.s))
    ELSE Null

parseMoney(v) ==
    IF IsNullish(v) THEN Null
    ELSE IF v.t = "num" THEN v
    ELSE IF v.t = "str" THEN NullIfNaN(parseInt(Without(v.s, Spaces)))
    ELSE Null


\* The text matched by /^([+-]?\d+(\.\d+)?)/ in s: from is where the digits
\* start, k how many there are, f how many digits follow a point after them.
parseOdds_m1(s, from, k, f) ==
    Sub(s, 1, from + k - 1 + (IF f > 0 THEN f + 1 ELSE 0))

parseOdds_digits(s, from, k) ==
    IF s = <<>> \/ s = <<"-", "-">> THEN Null
    ELSE IF k = 0 THEN Null
    ELSE NullIfNaN(NumberOfString(
             parseOdds_m1(s, from, k,
                 IF from + k <= Len(s) /\ s[from + k] = "."
                 THEN SpanLen(s, from + k + 1, Digits) ELSE 0)))

parseOdds_from(s, from) == parseOdds_digits(s, from, SpanLen(s, from, Digits))

parseOdds_trimmed(s) ==
    parseOdds_from(s, IF s # <<>> /\ s[1] \in {"+", "-"} THEN 2 ELSE 1)

\* parseOdds of the final converter: the leading /^([+-]?\d+(\.\d+)?)/ of the
\* trimmed string, as a number.
parseOdds(v) ==
    IF IsNullish(v) THEN Null
    ELSE IF v.t = "num" THEN v
    ELSE IF v.t = "str" THEN parseOdds_trimmed(trim(v.s))
    ELSE Null

parseNumberOrNull_trimmed(s) ==
    IF s = <<>> \/ s = <<"-", "-">> THEN Null
    ELSE NullIfNaN(NumberOfString(Without(s, {","})))

parseNumberOrNull(v) ==
    IF IsNullish(v) THEN Null
    ELSE IF v.t = "num" THEN v
    ELSE IF v.t = "str" THEN parseNumberOrNull_trimmed(trim(v.s))
    ELSE Null

-----------------------------------------------------------------------------
(* The state a coercer study leaves the converter in: no call running. *)

NoCall ==
    /\ input = Undef
    /\ HOME_ABBR = Undef
    /\ AWAY_ABBR = Undef
    /\ SEASON_YEAR = Null
    /\ now = 0
    /\ done = <<>>
    /\ part = <<>>
    /\ warnings = <<>>
    /\ compiled = Undef

convVars == <<input, HOME_ABBR, AWAY_ABBR, SEASON_YEAR, now, done, part,
              warnings, compiled>>

StringsUpTo(A, L) == UNION {[1..n -> A] : n \in 0..L}

-----------------------------------------------------------------------------
(* parseMoney on its own *)

MaxMoneyLen == 4
MoneyAlphabet == {"+", "-", "1", "2", " ", "a"}

MoneyInputs ==
    {Null, Undef, IntV(0), IntV(233), IntV(0 - 267), Num(25, 1),
     [t |-> "bool", b |-> TRUE], Arr(<<>>), Obj(<<>>)}
    \cup {Str(s) : s \in StringsUpTo(MoneyAlphabet, MaxMoneyLen)}

InitMoney ==
    /\ pc = "ready"
    /\ arg \in MoneyInputs
    /\ ret = Undef
    /\ NoCall

CallParseMoney ==
    /\ pc = "ready"
    /\ pc' = "returned"
    /\ ret' = parseMoney(arg)
    /\ UNCHANGED <<arg, convVars>>

NextMoney == CallParseMoney

SpecMoney == InitMoney /\ [][NextMoney]_vars

\* The text of a string argument with all white space taken out.
Stripped(v) == Without(v.s, Spaces)

\* x is an optional sign followed by one or more digits and nothing else.
IsSignedInteger(x) ==
    LET from == IF x # <<>> /\ x[1] \in {"+", "-"} THEN 2 ELSE 1
    IN  from <= Len(x) /\ SpanLen(x, from, Digits) = Len(x) - from + 1

SignedValue(x) ==
    IF x[1] = "-" THEN IntV(0 - DigitsToNat(Sub(x, 2, Len(x))))
    ELSE IF x[1] = "+" THEN IntV(DigitsToNat(Sub(x, 2, Len(x))))
    ELSE IntV(DigitsToNat(x))

\* The parts of C8 that the amendment leaves as they were.
C8_Common ==
    /\ ret.t # "throw"
    /\ (arg.t = "str" /\ Stripped(arg) # <<>>
          /\ Stripped(arg)[1] \in {"+", "-"} /\ IsSignedInteger(Stripped(arg)))
        => ret = SignedValue(Stripped(arg))
    /\ arg.t = "num" => ret = arg
    /\ arg = Null => ret = Null
    /\ arg = Str(<<>>) => ret = Null

\* C8 as stated: parseMoney returns the signed integer N for "+N" / "-N"
\* (white space ignored), a number unchanged, and null for null, for the
\* empty string and for every non-numeric string (a string that, white
\* space ignored, is not a decimal number); it never throws.
C8_Original ==
    pc = "returned" =>
        /\ C8_Common
        /\ (arg.t = "str" /\ NumberOfString(Stripped(arg)).t = "nan")
            => ret = Null

\* C8 amended: as C8, except that null is returned exactly for the strings
\* that, white space ignored, do not start with an optionally signed digit;
\* a string that starts with a signed integer followed by other characters
\* yields that leading integer.
C8_ParseMoney ==
    pc = "returned" =>
        /\ C8_Common
        /\ arg.t = "str" =>
             LET x == Stripped(arg)
                 ends == {k \in 1..Len(x) :
                            /\ IsSignedInteger(Sub(x, 1, k))
                            /\ (k < Len(x) => x[k + 1] \notin Digits)}
             IN  /\ ends = {} => ret = Null
                 /\ \A k \in ends : ret = SignedValue(Sub(x, 1, k))

C8_Witness ==
    /\ pc = "returned"
    /\ arg = Str(<<"-", " ", "2", "1">>)
    /\ ret = IntV(0 - 21)


-----------------------------------------------------------------------------
(* parsePercentRank on its own *)

HasKey(o, k) == \E i \in 1..Len(o.kv) : o.kv[i].k = k

\* o[k] of an object: the value under key k, undefined when there is none.
Prop(o, k) ==
    IF o.t = "obj" /\ HasKey(o, k)
    THEN o.kv[CHOOSE i \in 1..Len(o.kv) : o.kv[i].k = k].v
    ELSE Undef

Div100(v) == IF v.t = "num" THEN Num(v.n, v.sc + 2) ELSE v

\* /^([\d.]+)%?\s*\(#(\d+)\)$/ with (pct) or without the percent sign:
\* the two captured groups, or no match.
MatchValueRank_rank(s, pct, a, o, c) ==
    IF /\ a >= 1
       /\ (pct => StartsAt(s, a + 1, <<"%">>))
       /\ StartsAt(s, o, <<"(", "#">>)
       /\ c >= 1
       /\ StartsAt(s, o + 2 + c, <<")">>)
       /\ o + 2 + c = Len(s)
    THEN [ok |-> TRUE, x |-> Sub(s, 1, a), r |-> Sub(s, o + 2, o + 1 + c)]
    ELSE [ok |-> FALSE, x |-> <<>>, r |-> <<>>]

\* o is where "(#" must stand
MatchValueRank_open(s, pct, a, o) ==
    MatchValueRank_rank(s, pct, a, o, SpanLen(s, o + 2, Digits))

MatchValueRank_sign(s, pct, a, p) ==
    MatchValueRank_open(s, pct, a, a + p + SpanLen(s, a + p + 1, Spaces) + 1)

MatchValueRank(s, pct) ==
    MatchValueRank_sign(s, pct, SpanLen(s, 1, DigitOrDot), IF pct THEN 1 ELSE 0)

\* /^([\d.]+)%$/
MatchPercent(s) ==
    LET a == SpanLen(s, 1, DigitOrDot)
    IN  IF a >= 1 /\ a + 1 = Len(s) /\ s[Len(s)] = "%"
        THEN [ok |-> TRUE, x |-> Sub(s, 1, a)]
        ELSE [ok |-> FALSE, x |-> <<>>]

ValueOnly(v) == Obj(<<KV(s_value, v)>>)
ValueRank(v, r) == Obj(<<KV(s_value, v), KV(s_rank, r)>>)

parsePercentRank_matched_noDiv(s, m1, m2, m3, num) ==
    IF m1.ok THEN
        ValueRank(Div100(NumberOfDigitsDots(m1.x)), IntV(DigitsToNat(m1.r)))
    ELSE IF m2.ok THEN
        ValueRank(NumberOfDigitsDots(m2.x), IntV(DigitsToNat(m2.r)))
    ELSE IF m3.ok THEN ValueOnly(NumberOfDigitsDots(m3.x))
    ELSE IF num # Null THEN ValueOnly(num)
    ELSE ValueOnly(Str(s))

\* The result for a trimmed, non-empty text, given the matches m1 of
\* "X% (#R)", m2 of "X (#R)", m3 of "X%" and the number num the text parses to.
parsePercentRank_matched(s, m1, m2, m3, num) ==
    IF m1.ok THEN
        ValueRank(Div100(NumberOfDigitsDots(m1.x)), IntV(DigitsToNat(m1.r)))
    ELSE IF m2.ok THEN
        ValueRank(NumberOfDigitsDots(m2.x), IntV(DigitsToNat(m2.r)))
    ELSE IF m3.ok THEN ValueOnly(Div100(NumberOfDigitsDots(m3.x)))
    ELSE IF num # Null THEN ValueOnly(num)
    ELSE ValueOnly(Str(s))

parsePercentRank_trimmed(s) ==
    IF s = <<>> \/ s = <<"-", "-">> THEN Null
    ELSE parsePercentRank_matched(s, MatchValueRank(s, TRUE),
             MatchValueRank(s, FALSE), MatchPercent(s),
             parseNumberOrNull(Str(s)))

\* typeof str !== 'string': the number it parses to, if any
parsePercentRank_other(num) == IF num = Null THEN Null ELSE ValueOnly(num)

parsePercentRank(str) ==
    IF IsNullish(str) THEN Null
    ELSE IF str.t # "str" THEN parsePercentRank_other(parseNumberOrNull(str))
    ELSE parsePercentRank_trimmed(trim(str.s))

\* The input texts: every concatenation of a number part, a percent part, a
\* gap, a rank part and a tail, well formed or not.
PctNumbers ==
    {<<"3">>, <<"2", "4", ".", "4">>, <<"3", "6", ".", "5", "2">>,
     <<"5", ".">>, <<".", "5">>, <<"0">>}
PctBroken == {<<>>, <<".">>, <<"1", ".", "2", ".", "3">>, <<"-", "5">>, <<"x">>}
PctSigns == {<<>>, <<"%">>, <<" ", "%">>}
PctGaps == {<<>>, <<" ">>, <<" ", " ">>}
RankNumbers == {<<"2", "4">>, <<"1", "1">>, <<"7">>}
RankBroken == {<<>>, <<"(", "#", ")">>, <<"(", "2", "4", ")">>, <<"#", "2", "4">>,
               <<"(", "#", "2", "4">>}
RankText(r) == <<"(", "#">> \o r \o <<")">>
PctTails == {<<>>, <<" ">>, <<"x">>}

PercentInputs ==
    {Null, Undef, IntV(7), Num(244, 1), Arr(<<>>), Str(<<"-", "-">>)}
    \cup {Str(x \o p \o g \o r \o z) :
            x \in PctNumbers \cup PctBroken, p \in PctSigns, g \in PctGaps,
            r \in {RankText(q) : q \in RankNumbers} \cup RankBroken,
            z \in PctTails}

InitPercent ==
    /\ pc = "ready"
    /\ arg \in PercentInputs
    /\ ret = Undef
    /\ NoCall

CallParsePercentRank ==
    /\ pc = "ready"
    /\ pc' = "returned"
    /\ ret' = parsePercentRank(arg)
    /\ UNCHANGED <<arg, convVars>>

NextPercent == CallParsePercentRank

SpecPercent == InitPercent /\ [][NextPercent]_vars

\* C9: the four shapes of parsePercentRank.  For every number text X and
\* rank R: "X% (#R)" gives {value: X/100, rank: R}; "X (#R)" gives
\* {value: X, rank: R}; "X%" gives {value: X/100} and no rank; X alone gives
\* {value: X}; a result carries a rank only when the input carries "(#".
C9_PercentRankShapes ==
    pc = "returned" =>
        /\ \A x \in PctNumbers, g \in PctGaps, r \in RankNumbers :
            LET X == NumberOfDigitsDots(x)
                R == IntV(DigitsToNat(r))
            IN  /\ arg = Str(x \o <<"%">> \o g \o RankText(r))
                    => ret = ValueRank(Div100(X), R)
                /\ arg = Str(x \o g \o RankText(r)) => ret = ValueRank(X, R)
                /\ arg = Str(x \o <<"%">>) => ret = ValueOnly(Div100(X))
                /\ arg = Str(x) => ret = ValueOnly(X)
        /\ (ret.t = "obj" /\ HasKey(ret, s_rank))
            => (arg.t = "str" /\ includes(arg.s, <<"(", "#">>))

C9_Witness ==
    /\ pc = "returned"
    /\ arg = Str(<<"3", "6", ".", "5", "2", "%", " ", "(", "#", "2", "4", ")">>)
    /\ ret = ValueRank(Num(3652, 4), IntV(24))


-----------------------------------------------------------------------------
(* parseTimestampLabel *)

BaseYear == 2026
TicksPerYear == 2

\* new Date().getFullYear() at instant t of the model's clock
getFullYear(t) == BaseYear + (t \div TicksPerYear)

monthNames ==
    <<<<"j", "a", "n">>, <<"f", "e", "b">>, <<"m", "a", "r">>, <<"a", "p", "r">>,
      <<"m", "a", "y">>, <<"j", "u", "n">>, <<"j", "u", "l">>, <<"a", "u", "g">>,
      <<"s", "e", "p">>, <<"o", "c", "t">>, <<"n", "o", "v">>, <<"d", "e", "c">>>>

\* monthMap[name]: 1..12, or 0 for undefined
monthMap(name) ==
    IF \E i \in 1..12 : monthNames[i] = name
    THEN CHOOSE i \in 1..12 : monthNames[i] = name
    ELSE 0

UndefinedText == <<"u", "n", "d", "e", "f", "i", "n", "e", "d">>

\* String(mm).padStart(2, '0') where mm may be undefined (0 here)
PadMonth(mm) == IF mm = 0 THEN UndefinedText ELSE Pad2(mm)

\* `${year}` of the season year or of the clock's year
YearText(y) == IF y.t = "num" /\ y.sc = 0 /\ y.n >= 0 THEN NatToDigits(y.n)
               ELSE <<"?">>

IsoText(year, mm, dd, hh, minute) ==
    YearText(year) \o <<"-">> \o PadMonth(mm) \o <<"-">> \o Pad2(dd)
        \o <<"T">> \o Pad2(hh) \o <<":">> \o Pad2(minute)
        \o <<":", "0", "0", "Z">>

\* (\d{1,2}):(\d{2})\s*(AM|PM)$ with the i flag, from position p: c is where
\* ":" must stand, m the number of digits after it, a where AM / PM must
\* stand and ap the two characters there.
MatchClock_ampm(s, p, c, m, a, ap) ==
    IF /\ c - p \in 1..2
       /\ StartsAt(s, c, <<":">>)
       /\ m = 2
       /\ a + 1 = Len(s)
       /\ ap \in {<<"A", "M">>, <<"P", "M">>}
    THEN [ok |-> TRUE, hh |-> DigitsToNat(Sub(s, p, c - 1)),
          minute |-> DigitsToNat(Sub(s, c + 1, c + 2)), ampm |-> ap]
    ELSE [ok |-> FALSE, hh |-> 0, minute |-> 0, ampm |-> <<>>]

MatchClock_minute(s, p, c, m, a) ==
    MatchClock_ampm(s, p, c, m, a, toUpperCase(Sub(s, a, a + 1)))

MatchClock_colon(s, p, c) ==
    MatchClock_minute(s, p, c, SpanLen(s, c + 1, Digits),
                      c + 3 + SpanLen(s, c + 3, Spaces))

MatchClock(s, p) == MatchClock_colon(s, p, p + SpanLen(s, p, Digits))

\* /^([A-Za-z]{3})\s+(\d{1,2})\s+(\d{1,2}):(\d{2})\s*(AM|PM)$/i: w1 and w2
\* are the lengths of the two gaps, d the number of digits of the day.
MatchMonthName_clock(s, w1, d, w2, clock) ==
    IF /\ SpanLen(s, 1, Letters) = 3
       /\ w1 >= 1 /\ d \in 1..2 /\ w2 >= 1
       /\ clock.ok
    THEN [ok |-> TRUE, mon |-> Sub(s, 1, 3),
          dd |-> DigitsToNat(Sub(s, 4 + w1, 3 + w1 + d)), clock |-> clock]
    ELSE [ok |-> FALSE, mon |-> <<>>, dd |-> 0, clock |-> clock]

MatchMonthName_gap(s, w1, d, w2) ==
    MatchMonthName_clock(s, w1, d, w2, MatchClock(s, 4 + w1 + d + w2))

MatchMonthName_day(s, w1, d) ==
    MatchMonthName_gap(s, w1, d, SpanLen(s, 4 + w1 + d, Spaces))

MatchMonthName_month(s, w1) ==
    MatchMonthName_day(s, w1, SpanLen(s, 4 + w1, Digits))

MatchMonthName(s) == MatchMonthName_month(s, SpanLen(s, 4, Spaces))

\* /^(\d{1,2})\/(\d{1,2})\s+(\d{1,2}):(\d{2})\s*(AM|PM)$/i: m and d are
\* the numbers of digits of the month and of the day, w the length of the gap.
MatchMonthDay_clock(s, m, d, w, clock) ==
    IF /\ m \in 1..2
       /\ StartsAt(s, m + 1, <<"/">>)
       /\ d \in 1..2 /\ w >= 1
       /\ clock.ok
    THEN [ok |-> TRUE, mm |-> DigitsToNat(Sub(s, 1, m)),
          dd |-> DigitsToNat(Sub(s, m + 2, m + 1 + d)), clock |-> clock]
    ELSE [ok |-> FALSE, mm |-> 0, dd |-> 0, clock |-> clock]

MatchMonthDay_gap(s, m, d, w) ==
    MatchMonthDay_clock(s, m, d, w, MatchClock(s, m + 2 + d + w))

MatchMonthDay_day(s, m, d) ==
    MatchMonthDay_gap(s, m, d, SpanLen(s, m + 2 + d, Spaces))

MatchMonthDay_month(s, m) == MatchMonthDay_day(s, m, SpanLen(s, m + 2, Digits))

MatchMonthDay(s) == MatchMonthDay_month(s, SpanLen(s, 1, Digits))

LabelTimestamp(label, timestamp) ==
    Obj(<<KV(s_label, label), KV(s_timestamp, timestamp)>>)

\* let hh = Number(m[3]) % 12; if (ampm === 'PM') hh += 12;
to24Hour_noMod(hh, ampm) == IF ampm = <<"P", "M">> THEN hh + 12 ELSE hh

to24Hour(hh, ampm) ==
    IF ampm = <<"P", "M">> THEN (hh % 12) + 12 ELSE hh % 12

parseTimestampLabel_matched_noLabel(trimmed, year, a, b) ==
    IF a.ok THEN
        LabelTimestamp(Str(trimmed),
            Str(IsoText(year, monthMap(toLowerCase(a.mon)), a.dd,
                        to24Hour(a.clock.hh, a.clock.ampm),
                        a.clock.minute)))
    ELSE IF b.ok THEN
        LabelTimestamp(Str(trimmed),
            Str(IsoText(year, b.mm, b.dd,
                        to24Hour(b.clock.hh, b.clock.ampm),
                        b.clock.minute)))
    ELSE LabelTimestamp(Null, Null)

\* The result for a trimmed label, given the matches a of the month-name
\* form and b of the MM/DD form.
parseTimestampLabel_matched(trimmed, year, a, b) ==
    IF a.ok THEN
        LabelTimestamp(Str(trimmed),
            Str(IsoText(year, monthMap(toLowerCase(a.mon)), a.dd,
                        to24Hour(a.clock.hh, a.clock.ampm),
                        a.clock.minute)))
    ELSE IF b.ok THEN
        LabelTimestamp(Str(trimmed),
            Str(IsoText(year, b.mm, b.dd,
                        to24Hour(b.clock.hh, b.clock.ampm),
                        b.clock.minute)))
    ELSE LabelTimestamp(Str(trimmed), Null)

parseTimestampLabel_trimmed(trimmed, year) ==
    parseTimestampLabel_matched(trimmed, year, MatchMonthName(trimmed),
                                MatchMonthDay(trimmed))

\* the year always read from the clock, whatever the season year
parseTimestampLabel_clockYear(label, seasonYear, t) ==
    IF ~Truthy(label) \/ label.t # "str"
    THEN LabelTimestamp(Nc2(label, Null), Null)
    ELSE parseTimestampLabel_trimmed(trim(label.s), IntV(getFullYear(t)))

parseTimestampLabel(label, seasonYear, t) ==
    IF ~Truthy(label) \/ label.t # "str"
    THEN LabelTimestamp(Nc2(label, Null), Null)
    ELSE parseTimestampLabel_trimmed(trim(label.s),
             IF Truthy(seasonYear) THEN seasonYear ELSE IntV(getFullYear(t)))


\* In the study of parseTimestampLabel, arg is the recipe of a label: its
\* form ("name": Mon D H:MM AM/PM, "slash": MM/DD H:MM AM/PM) and its
\* parts, or any other value ("other").
MaxHour == 13

MonthTexts == {<<"N", "o", "v">>, <<"s", "e", "p">>, <<"X", "y", "z">>}
MonthNumberTexts == {<<"1", "1">>, <<"0", "5">>, <<"9">>}
DayTexts == {<<"1", "6">>, <<"5">>}
HourTexts ==
    {NatToDigits(h) : h \in 0..MaxHour} \cup {Pad2(h) : h \in 0..9}
        \cup {<<"2", "3">>, <<"9", "9">>}
MinuteTexts == {<<"1", "8">>, <<"0", "5">>}
ClockGaps == {<<>>, <<" ">>}
AmPmTexts == {<<"A", "M">>, <<"P", "M">>, <<"p", "m">>}

CurrentText == <<"C", "u", "r", "r", "e", "n", "t">>
MarkerText ==
    <<"h", "i", "s", "t", "o", "r", "i", "c", "_", "l", "i", "n", "e", "_",
      "m", "o", "v", "e", "m", "e", "n", "t">>
IsoExample ==
    <<"2", "0", "2", "1", "-", "1", "1", "-", "1", "6", "T", "1", "2", ":",
      "1", "8", ":", "0", "0", "Z">>
Nov16Text == <<"N", "o", "v", " ", "1", "6", " ", "1", "2", ":", "1", "8", " ", "P", "M">>

\* a label of the MM/DD grammar whose month, day and minute are no month,
\* day and minute
OutOfRangeText == <<"1", "3", "/", "4", "5", " ", "1", ":", "9", "9", " ", "P", "M">>

OtherLabels ==
    {Null, Undef, IntV(5), Str(<<>>), Str(CurrentText), Str(MarkerText),
     Str(IsoExample), Str(<<" ">> \o Nov16Text \o <<" ">>),
     Str(<<" ">> \o CurrentText \o <<" ">>), [t |-> "bool", b |-> TRUE],
     Str(<<"N", "o", "v", "e">> \o Sub(Nov16Text, 4, 15)),
     Str(<<"N", "o", "v", " ", "1", "1", "6", " ", "1", ":", "1", "8", "P", "M">>),
     Str(<<"1", "1", "/", "1", "6", " ", "1", ":", "1", "8", "8", "P", "M">>),
     Str(<<"N", "o", "v", " ", "1", "6", " ", "1", ":", "1", "8", " ", "X", "M">>),
     Str(OutOfRangeText)}

LabelRecipes ==
    [form : {"name"}, mon : MonthTexts, day : DayTexts, hour : HourTexts,
     minute : MinuteTexts, gap : ClockGaps, ampm : AmPmTexts]
    \cup
    [form : {"slash"}, mon : MonthNumberTexts, day : DayTexts, hour : HourTexts,
     minute : MinuteTexts, gap : ClockGaps, ampm : AmPmTexts]
    \cup
    [form : {"other"}, value : OtherLabels]

\* The label a recipe stands for.
LabelOf(r) ==
    IF r.form = "other" THEN r.value
    ELSE Str(r.mon \o (IF r.form = "name" THEN <<" ">> ELSE <<"/">>) \o r.day
             \o <<" ">> \o r.hour \o <<":">> \o r.minute \o r.gap \o r.ampm)

InitTime ==
    /\ pc = "ready"
    /\ arg \in LabelRecipes
    /\ ret = Undef
    /\ input = Undef
    /\ HOME_ABBR = Undef
    /\ AWAY_ABBR = Undef
    /\ SEASON_YEAR \in {IntV(2021), Null}
    /\ now \in {0, MaxNow}
    /\ done = <<>>
    /\ part = <<>>
    /\ warnings = <<>>
    /\ compiled = Undef

CallParseTimestampLabel ==
    /\ pc = "ready"
    /\ pc' = "returned"
    /\ ret' = parseTimestampLabel(LabelOf(arg), SEASON_YEAR, now)
    /\ UNCHANGED <<arg, convVars>>

NextTime == CallParseTimestampLabel

SpecTime == InitTime /\ [][NextTime]_vars

\* The two characters after the "T" of an ISO text.
HourField(ts) ==
    LET i == CHOOSE j \in 1..Len(ts) : ts[j] = "T" IN Sub(ts, i + 1, i + 2)

IsPM(r) == toUpperCase(r.ampm) = <<"P", "M">>

\* The rule of C10: PM and hour other than 12 adds 12, AM and hour 12 maps
\* to 0, every other hour is unchanged.
ClaimHour(h, pm) ==
    IF pm /\ h # 12 THEN h + 12
    ELSE IF ~pm /\ h = 12 THEN 0
    ELSE h

C10_Example ==
    (LabelOf(arg) = Str(Nov16Text) /\ SEASON_YEAR = IntV(2021))
    => Prop(ret, s_timestamp) = Str(IsoExample)

\* C10 as stated: every label of either grammar gets its hour by the rule
\* above, and "Nov 16 12:18 PM" in season 2021 gives 2021-11-16T12:18:00Z.
C10_Original ==
    pc = "returned" =>
        /\ arg.form \in {"name", "slash"} =>
             HourField(Prop(ret, s_timestamp).s)
                 = Pad2(ClaimHour(DigitsToNat(arg.hour), IsPM(arg)))
        /\ C10_Example

\* C10 amended: the rule holds for the hours 0..12; a label whose hour
\* text is 13 or more has its hour reduced modulo 12 before PM adds 12
\* (so "13:18 PM" gives hour 13 and "13:18 AM" gives hour 01).
C10_To24Hour ==
    pc = "returned" =>
        /\ arg.form \in {"name", "slash"} =>
             LET h == DigitsToNat(arg.hour)
             IN  HourField(Prop(ret, s_timestamp).s)
                   = Pad2(IF h <= 12 THEN ClaimHour(h, IsPM(arg))
                          ELSE (h % 12) + (IF IsPM(arg) THEN 12 ELSE 0))
        /\ C10_Example

C10_Witness ==
    /\ pc = "returned"
    /\ arg.form = "name"
    /\ LabelOf(arg) = Str(Nov16Text)
    /\ SEASON_YEAR = IntV(2021)
    /\ ret = LabelTimestamp(Str(Nov16Text), Str(IsoExample))

\* A label of neither grammar: not a string, or a string that, trimmed,
\* matches neither regular expression.
NoGrammar(label) ==
    label.t = "str" =>
        /\ ~MatchMonthName(trim(label.s)).ok
        /\ ~MatchMonthDay(trim(label.s)).ok

KeptLabel(label) ==
    IF label.t = "str" THEN Str(trim(label.s))
    ELSE IF label = Undef THEN Null
    ELSE label

IsIsoPrefix(s) ==
    /\ Len(s) >= 11
    /\ \A i \in {1, 2, 3, 4, 6, 7, 9, 10} : s[i] \in Digits
    /\ s[5] = "-" /\ s[8] = "-" /\ s[11] = "T"

\* C12: a label that starts with an ISO date prefix is passed through, the
\* timestamp returned for it is the label itself.
C12_IsoPassThrough ==
    (pc = "returned" /\ arg.form = "other" /\ LabelOf(arg).t = "str"
        /\ IsIsoPrefix(LabelOf(arg).s))
        => Prop(ret, s_timestamp) = LabelOf(arg)

-----------------------------------------------------------------------------
(* Objects, property access, exceptions *)

\* What a call that throws (a TypeError) yields in place of a value.
Throw == [t |-> "throw"]

\* String(v) / `${v}` of a primitive.  (No array or object is put where the
\* code stringifies a value.)
ToStringJS(v) ==
    CASE v.t = "str" -> v.s
      [] v.t = "undef" -> s_undefined
      [] v.t = "null" -> s_null
      [] v.t = "nan" -> s_NaN
      [] v.t = "bool" -> IF v.b THEN s_true ELSE s_false
      [] v.t = "num" ->
            LET mag == IF v.n < 0 THEN 0 - v.n ELSE v.n
                whole == NatToDigits(mag \div Pow10(v.sc))
                frac == NatToDigits(Pow10(v.sc) + (mag % Pow10(v.sc)))
            IN  (IF v.n < 0 THEN <<"-">> ELSE <<>>) \o whole
                    \o (IF v.sc = 0 THEN <<>>
                        ELSE <<".">> \o Sub(frac, 2, Len(frac)))
      [] OTHER -> s_object_Object

\* o[k] for a key given as a value (row[HOME_ABBR]): the key is stringified.
PropV(o, kval) == Prop(o, ToStringJS(kval))

\* Object.keys(o); a primitive or an array has none of the keys the
\* converter looks for.
Keys(o) == IF o.t = "obj" THEN [i \in 1..Len(o.kv) |-> o.kv[i].k] ELSE <<>>

\* get(obj, pathArr, defaultValue = null)
RECURSIVE get(_, _)
get(obj, pathArr) ==
    IF pathArr = <<>> THEN obj
    ELSE IF Truthy(obj) /\ obj.t = "obj" /\ HasKey(obj, Head(pathArr))
    THEN get(Prop(obj, Head(pathArr)), Tail(pathArr))
    ELSE Null

\* root.sections || {}
sectionsOf(root) == Or2(Prop(root, s_sections), Obj(<<>>))

findSection_rawFirst(root, label, rawKey) ==
    LET sections == sectionsOf(root)
        rawSections == get(root, <<s_raw, rawKey, s_data, s_sections>>)
    IN  IF Truthy(rawSections) /\ Truthy(Prop(rawSections, label))
        THEN Prop(rawSections, label)
        ELSE IF Truthy(Prop(sections, label)) THEN Prop(sections, label)
        ELSE Null

findSection(root, label, rawKey) ==
    LET sections == sectionsOf(root)
        rawSections == get(root, <<s_raw, rawKey, s_data, s_sections>>)
    IN  IF Truthy(Prop(sections, label)) THEN Prop(sections, label)
        ELSE IF Truthy(rawSections) /\ Truthy(Prop(rawSections, label))
        THEN Prop(rawSections, label)
        ELSE Null

\* the value under the key that is the abbreviation itself
getTeamField_exact(rec, teamAbbr) ==
    IF ~Truthy(rec) \/ ~Truthy(teamAbbr) THEN Null
    ELSE Nc2(Prop(rec, teamAbbr.s), Null)

getTeamField(rec, teamAbbr) ==
    IF ~Truthy(rec) \/ ~Truthy(teamAbbr) THEN Null
    ELSE LET target == toUpperCase(teamAbbr.s)
             hits == {i \in 1..Len(Keys(rec)) : toUpperCase(Keys(rec)[i]) = target}
         IN  IF hits = {} THEN Null ELSE rec.kv[Min(hits)].v

\* sec && Array.isArray(sec[key]) ? sec[key] : []   (the rows, as a sequence)
RowsOf(sec, key) ==
    IF Truthy(sec) /\ Prop(sec, key).t = "arr" THEN Prop(sec, key).el ELSE <<>>

IsAlnum(c) == c \in Letters \cup Digits

\* Runs of blanks become one blank.
Collapse(s) ==
    SelectSeq([i \in 1..Len(s) |->
                  IF s[i] = " " /\ i > 1 /\ s[i - 1] = " " THEN "" ELSE s[i]],
              LAMBDA c : c # "")

toSnakeCase(str) ==
    IF ~Truthy(str) \/ str.t # "str" THEN str
    ELSE LET a == Without(str.s, {"%", "(", ")"})
             b == [i \in 1..Len(a) |-> IF IsAlnum(a[i]) THEN a[i] ELSE " "]
             c == toLowerCase(trim(Collapse(b)))
         IN  Str([i \in 1..Len(c) |-> IF c[i] = " " THEN "_" ELSE c[i]])

parsePercent(str) ==
    IF IsNullish(str) THEN Null
    ELSE IF str.t = "num" THEN str
    ELSE LET s == trim(ToStringJS(str))
             m == MatchPercent(s)
             n == NumberOfDigitsDots(m.x)
         IN  IF s = <<>> \/ s = <<"-", "-">> THEN Null
             ELSE IF ~m.ok THEN parseNumberOrNull(Str(s))
             ELSE IF n.t = "nan" THEN Null
             ELSE Div100(n)

normalizeHAN(value) ==
    IF ~Truthy(value) THEN Null
    ELSE LET s == toLowerCase(trim(ToStringJS(value)))
         IN  IF startsWith(s, <<"h">>) THEN Str(s_Home)
             ELSE IF startsWith(s, <<"a">>) THEN Str(s_Away)
             ELSE IF startsWith(s, <<"n">>) THEN Str(s_Neutral)
             ELSE value


\* normalizeInjuryStatus with OUT tested first
normalizeInjuryStatus_outFirst(status) ==
    IF ~Truthy(status) THEN Null
    ELSE LET s == toUpperCase(trim(ToStringJS(status)))
         IN  IF includes(s, s_OUT) THEN Str(s_OUT)
             ELSE IF includes(s, s_PROB) THEN Str(s_PROBABLE)
             ELSE IF includes(s, s_QUESTION) THEN Str(s_QUESTIONABLE)
             ELSE IF s = s_IR \/ includes(s, s_INJURED_RESERVE) THEN Str(s_I_R)
             ELSE Str(s)

normalizeInjuryStatus(status) ==
    IF ~Truthy(status) THEN Null
    ELSE LET s == toUpperCase(trim(ToStringJS(status)))
         IN  IF includes(s, s_PROB) THEN Str(s_PROBABLE)
             ELSE IF includes(s, s_QUESTION) THEN Str(s_QUESTIONABLE)
             ELSE IF s = s_IR \/ includes(s, s_INJURED_RESERVE) THEN Str(s_I_R)
             ELSE IF includes(s, s_OUT) THEN Str(s_OUT)
             ELSE Str(s)


\* The study of normalizeInjuryStatus: arg is the status, drawn from texts
\* that name one token, several, a fragment of one, or none, with and
\* without surrounding white space, and from values that are not strings.
StatusCores ==
    {<<"P", "r", "o", "b", "a", "b", "l", "e">>,
     <<"p", "r", "o", "b">>,
     <<"Q", "u", "e", "s", "t", "i", "o", "n", "a", "b", "l", "e">>,
     <<"q", "u", "e", "s", "t", "i", "o", "n">>,
     <<"I", "R">>,
     <<"i", "r">>,
     <<"I", "n", "j", "u", "r", "e", "d", " ", "R", "e", "s", "e", "r", "v", "e">>,
     <<"O", "u", "t">>,
     <<"D", "o", "u", "b", "t", "f", "u", "l">>,
     <<"O", "u", "t", "-", "p", "r", "o", "b", "a", "b", "l", "e">>,
     <<"Q", "u", "e", "s", "t", "i", "o", "n", "a", "b", "l", "e", "/", "O", "u", "t">>,
     <<"Q", "u", "e", "s", "t", "i", "o", "n", "a", "b", "l", "e", " ", "(", "p", "r", "o", "b", ")">>,
     <<"I", "R", " ", "o", "u", "t">>,
     <<"O", "n", " ", "I", "R">>,
     <<"I", "n", "j", "u", "r", "e", "d", " ", "R", "e", "s", "e", "r", "v", "e", "-", "O", "u", "t">>,
     <<"T", "h", "i", "r", "d">>,
     <<"R", "o", "u", "t", "e">>}
StatusPads == {<<>>, <<" ">>}
StatusTails == {<<>>, <<" ">>, <<"?">>}

StatusInputs ==
    {Null, Undef, Str(<<>>), IntV(0), IntV(5), [t |-> "bool", b |-> TRUE]}
    \cup {Str(x \o c \o z) : x \in StatusPads, c \in StatusCores, z \in StatusTails}

InitStatus ==
    /\ pc = "ready"
    /\ arg \in StatusInputs
    /\ ret = Undef
    /\ NoCall

CallNormalizeInjuryStatus ==
    /\ pc = "ready"
    /\ pc' = "returned"
    /\ ret' = normalizeInjuryStatus(arg)
    /\ UNCHANGED <<arg, convVars>>

NextStatus == CallNormalizeInjuryStatus

SpecStatus == InitStatus /\ [][NextStatus]_vars

\* C13 as stated: the first of PROBABLE, QUESTIONABLE, IR / INJURED
\* RESERVE, OUT that is a substring of the upper-cased input decides the
\* result, and an input containing none of them is returned upper-cased.
C13_Original ==
    (pc = "returned" /\ arg.t = "str" /\ arg.s # <<>>) =>
        LET U == toUpperCase(arg.s)
        IN  ret = IF includes(U, s_PROBABLE) THEN Str(s_PROBABLE)
                  ELSE IF includes(U, s_QUESTIONABLE) THEN Str(s_QUESTIONABLE)
                  ELSE IF includes(U, s_IR) \/ includes(U, s_INJURED_RESERVE)
                       THEN Str(s_I_R)
                  ELSE IF includes(U, s_OUT) THEN Str(s_OUT)
                  ELSE Str(U)

\* C13 amended: with S the input as text, trimmed and upper-cased, the
\* first that applies of "S contains PROB", "S contains QUESTION", "S is IR
\* or contains INJURED RESERVE", "S contains OUT" decides the result
\* (PROBABLE, QUESTIONABLE, I-R, OUT); when none applies the result is S;
\* an absent or empty status gives null.
C13_StatusPriority ==
    pc = "returned" =>
        /\ ~Truthy(arg) => ret = Null
        /\ Truthy(arg) =>
            LET S == toUpperCase(trim(ToStringJS(arg)))
                prob == includes(S, <<"P", "R", "O", "B">>)
                question == includes(S, <<"Q", "U", "E", "S", "T", "I", "O", "N">>)
                ir == S = <<"I", "R">> \/ includes(S, s_INJURED_RESERVE)
                out == includes(S, <<"O", "U", "T">>)
            IN  /\ prob => ret = Str(s_PROBABLE)
                /\ (~prob /\ question) => ret = Str(s_QUESTIONABLE)
                /\ (~prob /\ ~question /\ ir) => ret = Str(s_I_R)
                /\ (~prob /\ ~question /\ ~ir /\ out) => ret = Str(s_OUT)
                /\ (~prob /\ ~question /\ ~ir /\ ~out) => ret = Str(S)

C13_Witness ==
    /\ pc = "returned"
    /\ arg = Str(<<"O", "u", "t", "-", "p", "r", "o", "b", "a", "b", "l", "e">>)
    /\ ret = Str(s_PROBABLE)

-----------------------------------------------------------------------------
(* The mappers.  Each yields [v |-> its return value, or Throw when it   *)
(* raises, w |-> the console.warn lines it printed before that].         *)

Ret(v, w) == [v |-> v, w |-> w]

\* new Date().toISOString() at instant t: the year of the clock and the
\* instant within it.
toISOString(t) ==
    NatToDigits(getFullYear(t)) \o s_01_01T00_00_0
        \o NatToDigits(t % TicksPerYear) \o s_000Z

extractMeta(root, home, away, seasonYear, t) ==
    IF IsNullish(root) THEN Ret(Throw, <<>>)
    ELSE LET baseMeta == Or2(Prop(root, s_meta), Obj(<<>>))
         IN  Ret(Obj(<<KV(s_league, Str(s_NFL)),
                       KV(s_season, Or2(seasonYear, Null)),
                       KV(s_matchup_id, Or2(Prop(baseMeta, s_matchupId), Null)),
                       KV(s_home_team, home),
                       KV(s_away_team, away),
                       KV(s_generated_at, Str(toISOString(t)))>>),
                 <<>>)

emptyRange ==
    Obj(<<KV(s_open, Null), KV(s_high, Null), KV(s_low, Null), KV(s_last, Null)>>)

\* range.<bucket> = v
SetKey(o, k, v) ==
    Obj([i \in 1..Len(o.kv) |-> IF o.kv[i].k = k THEN KV(k, v) ELSE o.kv[i]])

\* if (label.includes(bucket)) range.<bucket> = v, for a label that is set
rangeBucket(range, on, label, bucket, v) ==
    IF on /\ includes(label, bucket) THEN SetKey(range, bucket, v) ELSE range

\* The four tests of one pair, in the order of the source.
rangeBuckets(range, on, label, v) ==
    rangeBucket(rangeBucket(rangeBucket(rangeBucket(range, on, label, s_open, v),
                                        on, label, s_high, v),
                            on, label, s_low, v),
                on, label, s_last, v)

\* One (label, value) pair of a row: every bucket the label names is assigned.
rangePair(range, rawLabel, rawValue) ==
    rangeBuckets(range, Truthy(rawLabel), toLowerCase(ToStringJS(rawLabel)),
                 parseOdds(rawValue))

RECURSIVE rangeLoop(_, _)
rangeLoop(rows, range) ==
    IF rows = <<>> THEN range
    ELSE rangeLoop(Tail(rows),
             rangePair(rangePair(range, Prop(Head(rows), s_price_label_1),
                                 Prop(Head(rows), s_price_1)),
                       Prop(Head(rows), s_price_label_2),
                       Prop(Head(rows), s_price_2)))

HasNullRow(rows) == \E i \in 1..Len(rows) : IsNullish(rows[i])

\* buildRangeFromRows(rows) for the value found under the domain key
buildRangeFromRows(rows) ==
    IF rows.t # "arr" THEN emptyRange
    ELSE IF HasNullRow(rows.el) THEN Throw
    ELSE rangeLoop(rows.el, emptyRange)

\* The "Matchup Menu" section of a mapper: the section named for this
\* matchup, else the first section whose key starts with "matchup menu".
matchupMenuOf(root, home, away) ==
    LET matchupLabel == s_Matchup_Menu \o ToStringJS(away) \o s_empty
                            \o ToStringJS(home)
        exact == get(root, <<s_sections, matchupLabel>>)
        sections == sectionsOf(root)
        ks == Keys(sections)
        hits == {i \in 1..Len(ks) : startsWith(toLowerCase(ks[i]), s_matchup_menu)}
    IN  IF Truthy(exact) THEN exact
        ELSE IF hits # {} THEN Prop(sections, ks[Min(hits)])
        ELSE exact

\* /^current$/i.test(label) of a truthy label
IsCurrentLabel(label) ==
    Truthy(label) /\ toLowerCase(ToStringJS(label)) = s_current

\* no row is taken for a marker
mlIsMarker_never(rec) == FALSE

mlIsMarker(rec) ==
    /\ Truthy(Prop(rec, s_label))
    /\ includes(toLowerCase(ToStringJS(Prop(rec, s_label))),
                s_historic_line_movement)

\* rawLabel without the "time stamp" key
mlRawLabel_noTimeStamp(rec) ==
    Or3(Prop(rec, s_timestamp), Prop(rec, s_label), Null)

mlRawLabel(rec) ==
    Or4(Prop(rec, s_time_stamp), Prop(rec, s_timestamp), Prop(rec, s_label), Null)

\* a row is kept only with both sides
mlKept_bothSides(rec, home, away) ==
    /\ ~mlIsMarker(rec)
    /\ parseOdds(getTeamField(rec, home)) # Null
    /\ parseOdds(getTeamField(rec, away)) # Null

mlKept(rec, home, away) ==
    /\ ~mlIsMarker(rec)
    /\ ~(parseOdds(getTeamField(rec, home)) = Null
            /\ parseOdds(getTeamField(rec, away)) = Null)

mlPoint(rec, home, away, seasonYear, t) ==
    LET ts == parseTimestampLabel(mlRawLabel(rec), seasonYear, t)
    IN  Obj(<<KV(s_timestamp, Prop(ts, s_timestamp)),
              KV(s_label, Prop(ts, s_label)),
              KV(s_home, parseOdds(getTeamField(rec, home))),
              KV(s_away, parseOdds(getTeamField(rec, away)))>>)

HomeAway(point) ==
    Obj(<<KV(s_home, Prop(point, s_home)), KV(s_away, Prop(point, s_away))>>)

Max(S) == CHOOSE x \in S : \A y \in S : y <= x

\* The rows of the history loop that are pushed, in order.
mlKeptRows(rows, home, away) ==
    SelectSeq(rows, LAMBDA rec : mlKept(rec, home, away))

\* result.history after the loop over rawHistory (no row is null)
mlHistory(rows, home, away, seasonYear, t) ==
    LET kept == mlKeptRows(rows, home, away)
    IN  [i \in 1..Len(kept) |-> mlPoint(kept[i], home, away, seasonYear, t)]

\* result.current as the first row of the series, whatever its label
mlCurrent_first(rows, home, away, seasonYear, t) ==
    LET kept == mlKeptRows(rows, home, away)
    IN  IF Len(kept) > 0
        THEN HomeAway(mlPoint(kept[1], home, away, seasonYear, t))
        ELSE Obj(<<KV(s_home, Null), KV(s_away, Null)>>)

\* result.current after the loop
mlCurrent(rows, home, away, seasonYear, t) ==
    LET kept == mlKeptRows(rows, home, away)
        cur == {i \in 1..Len(kept) : IsCurrentLabel(mlRawLabel(kept[i]))}
    IN  IF cur # {}
        THEN HomeAway(mlPoint(kept[Max(cur)], home, away, seasonYear, t))
        ELSE IF Len(kept) > 0
        THEN HomeAway(mlPoint(kept[1], home, away, seasonYear, t))
        ELSE Obj(<<KV(s_home, Null), KV(s_away, Null)>>)

W_mlHistory == s_moneylinemovement_Money_Line_History_section_not_found_or_empty
W_mlMenu == s_moneylinemovement_Matchup_Menu_moneylinemovement_not_found
W_mlLine == s_moneylinemovement_Line_Movement_moneylinemovement_not_found

\* The rows extractMoneyLineMovement reads its history from.
mlRawHistory(root) ==
    RowsOf(findSection(root, s_Money_Line_History, s_moneylinemovement),
           s_moneylinemovement)

extractMoneyLineMovement(root, home, away, seasonYear, t) ==
    LET rawHistory == mlRawHistory(root)
        w1 == IF rawHistory = <<>> THEN <<W_mlHistory>> ELSE <<>>
        matchupMenu == matchupMenuOf(root, home, away)
        lineMovementSec == findSection(root, s_Line_Movement, s_moneylinemovement)
        homeRows == Prop(matchupMenu, s_moneylinemovement)
        awayRows == Prop(lineMovementSec, s_moneylinemovement)
        noHome == ~Truthy(matchupMenu) \/ homeRows.t # "arr"
        noAway == ~Truthy(lineMovementSec) \/ awayRows.t # "arr"
        range_home == IF noHome THEN emptyRange ELSE buildRangeFromRows(homeRows)
        range_away == IF noAway THEN emptyRange ELSE buildRangeFromRows(awayRows)
        w2 == IF noHome THEN <<W_mlMenu>> ELSE <<>>
        w3 == IF noAway THEN <<W_mlLine>> ELSE <<>>
    IN  IF IsNullish(root) THEN Ret(Throw, <<>>)
        ELSE IF HasNullRow(rawHistory) THEN Ret(Throw, w1)
        ELSE IF range_home = Throw THEN Ret(Throw, w1)
        ELSE IF range_away = Throw THEN Ret(Throw, w1 \o w2)
        ELSE Ret(Obj(<<KV(s_current, mlCurrent(rawHistory, home, away, seasonYear, t)),
                       KV(s_range_home, range_home),
                       KV(s_range_away, range_away),
                       KV(s_history, Arr(mlHistory(rawHistory, home, away, seasonYear, t)))>>),
                 w1 \o w2 \o w3)

\* rows.map(F) of an array's rows: reading a property of a null or
\* undefined row raises.
MapRows(rows, F(_)) ==
    IF HasNullRow(rows) THEN Throw
    ELSE Arr([i \in 1..Len(rows) |-> F(rows[i])])

\* An object literal whose members were computed first: any of them raising
\* raises.
ObjOf(kvs) ==
    IF \E i \in 1..Len(kvs) : kvs[i].v = Throw THEN Throw ELSE Obj(kvs)

\* The current value of a spread / totals history: the value of the last
\* row labelled "current" unless that value is null, else the first row's.
currentOf(labels, values) ==
    LET cur == {i \in 1..Len(labels) : IsCurrentLabel(labels[i])}
    IN  IF cur # {} /\ values[Max(cur)] # Null THEN values[Max(cur)]
        ELSE IF Len(values) > 0 THEN values[1]
        ELSE Null

historyPoint(rawLabel, key, value, seasonYear, t) ==
    LET ts == parseTimestampLabel(rawLabel, seasonYear, t)
    IN  Obj(<<KV(s_timestamp, Prop(ts, s_timestamp)),
              KV(s_label, Prop(ts, s_label)),
              KV(key, value)>>)

W_spHistory == s_pointspreadlinemovement_Spread_History_not_found_or_empty
W_spMenu == s_pointspreadlinemovement_Matchup_Menu_pointspreadlinemovement_not_found

spLabel(rec) == Or3(Prop(rec, s_timestamp), Prop(rec, s_label), Null)

extractSpreadMovement(root, home, away, seasonYear, t) ==
    LET rawHistory == RowsOf(findSection(root, s_Spread_History, s_pointspreadlinemovement),
                             s_pointspreadlinemovement)
        w1 == IF rawHistory = <<>> THEN <<W_spHistory>> ELSE <<>>
        labels == [i \in 1..Len(rawHistory) |-> spLabel(rawHistory[i])]
        values == [i \in 1..Len(rawHistory) |-> parseOdds(Prop(rawHistory[i], s_spread))]
        history == [i \in 1..Len(rawHistory) |->
                       historyPoint(labels[i], s_spread, values[i], seasonYear, t)]
        matchupMenu == matchupMenuOf(root, home, away)
        rows == Prop(matchupMenu, s_pointspreadlinemovement)
        noMenu == ~Truthy(matchupMenu) \/ rows.t # "arr"
        range == IF noMenu THEN emptyRange ELSE buildRangeFromRows(rows)
        w2 == IF noMenu THEN <<W_spMenu>> ELSE <<>>
    IN  IF IsNullish(root) THEN Ret(Throw, <<>>)
        ELSE IF HasNullRow(rawHistory) \/ range = Throw THEN Ret(Throw, w1)
        ELSE Ret(Obj(<<KV(s_current_spread, currentOf(labels, values)),
                       KV(s_range_spread, range),
                       KV(s_spread_history, Arr(history))>>),
                 w1 \o w2)

W_ouHistory == s_overunderlinemovement_Totals_History_not_found_or_empty
W_ouMenu == s_overunderlinemovement_Matchup_Menu_overunderlinemovement_not_found

ouLabel(rec) == Or3(Prop(rec, s_label), Prop(rec, s_timestamp), Null)

extractTotalsMovement(root, home, away, seasonYear, t) ==
    LET rawHistory == RowsOf(findSection(root, s_Totals_History, s_overunderlinemovement),
                             s_overunderlinemovement)
        w1 == IF rawHistory = <<>> THEN <<W_ouHistory>> ELSE <<>>
        labels == [i \in 1..Len(rawHistory) |-> ouLabel(rawHistory[i])]
        values == [i \in 1..Len(rawHistory) |->
                      parseNumberOrNull(Prop(rawHistory[i], s_total))]
        history == [i \in 1..Len(rawHistory) |->
                       historyPoint(labels[i], s_total, values[i], seasonYear, t)]
        matchupMenu == matchupMenuOf(root, home, away)
        rows == Prop(matchupMenu, s_overunderlinemovement)
        noMenu == ~Truthy(matchupMenu) \/ rows.t # "arr"
        range == IF noMenu THEN emptyRange ELSE buildRangeFromRows(rows)
        w2 == IF noMenu THEN <<W_ouMenu>> ELSE <<>>
    IN  IF IsNullish(root) THEN Ret(Throw, <<>>)
        ELSE IF HasNullRow(rawHistory) \/ range = Throw THEN Ret(Throw, w1)
        ELSE Ret(Obj(<<KV(s_current_total, currentOf(labels, values)),
                       KV(s_range_total, range),
                       KV(s_totals_history, Arr(history))>>),
                 w1 \o w2)

\* { record: row.Record || row.record || null, home: row[HOME] ?? row.home
\*   ?? null, away: row[AWAY] ?? row.away ?? null }
trendRow(row, home, away) ==
    Obj(<<KV(s_record, Or3(Prop(row, s_Record), Prop(row, s_record), Null)),
          KV(s_home, Nc3(PropV(row, home), Prop(row, s_home), Null)),
          KV(s_away, Nc3(PropV(row, away), Prop(row, s_away), Null))>>)

\* The moneyline trends read row.record before row.Record.
mlTrendRow(row, home, away) ==
    Obj(<<KV(s_record, Or3(Prop(row, s_record), Prop(row, s_Record), Null)),
          KV(s_home, Nc3(PropV(row, home), Prop(row, s_home), Null)),
          KV(s_away, Nc3(PropV(row, away), Prop(row, s_away), Null))>>)

predictionRow(row) ==
    Obj(<<KV(s_model, toSnakeCase(Or3(Prop(row, s_Model), Prop(row, s_model), Str(<<>>)))),
          KV(s_pick, Nc3(Prop(row, s_Pick), Prop(row, s_pick), Null))>>)

extractMoneylineAnalysis(root, home, away) ==
    IF IsNullish(root) THEN Ret(Throw, <<>>)
    ELSE Ret(ObjOf(<<
        KV(s_money_line_predictions, Arr(<<>>)),
        KV(s_money_line_trends_last_season,
           MapRows(RowsOf(findSection(root, s_money_line_situational_trends,
                                      s_moneylineanalysis), s_moneylineanalysis),
                   LAMBDA row : mlTrendRow(row, home, away)))>>), <<>>)

extractPointspreadAnalysis(root, home, away) ==
    IF IsNullish(root) THEN Ret(Throw, <<>>)
    ELSE Ret(ObjOf(<<
        KV(s_ats_predictions,
           MapRows(RowsOf(findSection(root, s_ATS_Predictions, s_pointspreadanalysis),
                          s_pointspreadanalysis),
                   LAMBDA row : predictionRow(row))),
        KV(s_ats_situational_trends_last_season,
           MapRows(RowsOf(findSection(root, s_ATS_Situational_Trends,
                                      s_pointspreadanalysis), s_pointspreadanalysis),
                   LAMBDA row : trendRow(row, home, away)))>>), <<>>)

extractOverUnderAnalysis(root, home, away) ==
    IF IsNullish(root) THEN Ret(Throw, <<>>)
    ELSE Ret(ObjOf(<<
        KV(s_predictions,
           MapRows(RowsOf(findSection(root, s_Over_Under_Predictions, s_overunderanalysis),
                          s_overunderanalysis),
                   LAMBDA row : predictionRow(row))),
        KV(s_trends_last_season,
           MapRows(RowsOf(findSection(root, s_Over_Under_Situational_Trends,
                                      s_overunderanalysis), s_overunderanalysis),
                   LAMBDA row : trendRow(row, home, away)))>>), <<>>)

W_dualgamelog == s_dualgamelog_No_season_performance_sections_found

gameLogRow(row) ==
    Obj(<<KV(s_week, Or2(Prop(row, s_week), Null)),
          KV(s_opponent, Or2(Prop(row, s_opponent), Null)),
          KV(s_rank, parseNumberOrNull(Prop(row, s_rank))),
          KV(s_home_away_neutral, normalizeHAN(Prop(row, s_h_a_n))),
          KV(s_score, Or2(Prop(row, s_score), Null))>>)

\* seasonKeys.find(k => k.toLowerCase().includes(name)) || seasonKeys[ix]:
\* the key as a string value, undefined when there is none.
keyGuess(seasonKeys, name, ix) ==
    LET hits == {i \in 1..Len(seasonKeys) : includes(toLowerCase(seasonKeys[i]), name)}
    IN  IF hits # {} THEN Str(seasonKeys[Min(hits)])
        ELSE IF ix <= Len(seasonKeys) THEN Str(seasonKeys[ix])
        ELSE Undef

gameLogOf(sections, guess) ==
    IF Truthy(guess)
    THEN MapRows(RowsOf(Prop(sections, guess.s), s_dualgamelog),
                 LAMBDA row : gameLogRow(row))
    ELSE Arr(<<>>)

extractDualGameLog(root, home, away) ==
    LET sections == sectionsOf(root)
        seasonKeys == SelectSeq(Keys(sections),
                          LAMBDA k : includes(toLowerCase(k), s_season_performance))
        homeLog == gameLogOf(sections, keyGuess(seasonKeys, s_buffalo, 1))
        awayLog == gameLogOf(sections, keyGuess(seasonKeys, s_tampa_bay, 2))
    IN  IF IsNullish(root) \/ homeLog = Throw \/ awayLog = Throw
        THEN Ret(Throw, <<>>)
        ELSE Ret(Obj(<<KV(s_home_season_performance_last_season, homeLog),
                       KV(s_away_season_performance_last_season, awayLog)>>),
                 IF seasonKeys = <<>> THEN <<W_dualgamelog>> ELSE <<>>)

\* { stat, home: row[HOME] ?? row.buf ?? row.home, away: row[AWAY] ?? row.tb
\*   ?? row.away }, the stat name read from the keys given
statRow(row, statName, home, away) ==
    Obj(<<KV(s_stat, toSnakeCase(statName)),
          KV(s_home, parseNumberOrNull(
                         Nc3(PropV(row, home), Prop(row, s_buf), Prop(row, s_home)))),
          KV(s_away, parseNumberOrNull(
                         Nc3(PropV(row, away), Prop(row, s_tb), Prop(row, s_away))))>>)

\* typeof v === 'string' && v.includes('%') ? parsePercent(v) : parseNumberOrNull(v)
percentOrNumber(v) ==
    IF v.t = "str" /\ includes(v.s, <<"%">>) THEN parsePercent(v)
    ELSE parseNumberOrNull(v)

efficiencyRow(row) ==
    Obj(<<KV(s_stat, toSnakeCase(Or2(Prop(row, s_stat), Str(<<>>)))),
          KV(s_home, percentOrNumber(Prop(row, s_buf))),
          KV(s_away, percentOrNumber(Prop(row, s_tb)))>>)

extractEfficiencyStats(root, home, away) ==
    IF IsNullish(root) THEN Ret(Throw, <<>>)
    ELSE Ret(ObjOf(<<
        KV(s_key_offensive_stats_last_season,
           MapRows(RowsOf(findSection(root, s_key_offensive_stats, s_efficiencystats),
                          s_efficiencystats),
                   LAMBDA row : statRow(row, Or2(Prop(row, s_stat), Str(<<>>)), home, away))),
        KV(s_key_defensive_stats_last_season,
           MapRows(RowsOf(findSection(root, s_key_defensive_stats, s_efficiencystats),
                          s_efficiencystats),
                   LAMBDA row : statRow(row, Or2(Prop(row, s_stat), Str(<<>>)), home, away))),
        KV(s_home_vs_away_offensive_efficiency_last_season,
           MapRows(RowsOf(findSection(root, s_tampa_bayvsbuffalo_offensive_efficiency,
                                      s_efficiencystats), s_efficiencystats),
                   LAMBDA row : efficiencyRow(row))),
        KV(s_home_vs_away_defensive_efficiency_last_season,
           MapRows(RowsOf(findSection(root, s_tampa_bayvsbuffalo_defensive_efficiency,
                                      s_efficiencystats), s_efficiencystats),
                   LAMBDA row : efficiencyRow(row)))>>), <<>>)

extractOverview(root, home, away) ==
    IF IsNullish(root) THEN Ret(Throw, <<>>)
    ELSE Ret(ObjOf(<<
        KV(s_offensive_stat_comparison_last_season,
           MapRows(RowsOf(findSection(root, s_Offensive_Stat_Comparison, s_overview),
                          s_overview),
                   LAMBDA row : statRow(row, Or3(Prop(row, s_Stat), Prop(row, s_stat),
                                                 Str(<<>>)), home, away))),
        KV(s_defensive_stat_comparison_last_season,
           MapRows(RowsOf(findSection(root, s_Defensive_Stat_Comparison, s_overview),
                          s_overview),
                   LAMBDA row : statRow(row, Or3(Prop(row, s_Stat), Prop(row, s_stat),
                                                 Str(<<>>)), home, away)))>>), <<>>)

injuryRow(row) ==
    Obj(<<KV(s_name, Or2(Prop(row, s_name), Null)),
          KV(s_pos, Or2(Prop(row, s_pos), Null)),
          KV(s_updated, Or2(Prop(row, s_updated), Null)),
          KV(s_injury, Or2(Prop(row, s_injury), Null)),
          KV(s_status, normalizeInjuryStatus(Prop(row, s_status))),
          KV(s_details, Or2(Prop(row, s_details), Null))>>)

extractInjuries(root, home, away) ==
    IF IsNullish(root) THEN Ret(Throw, <<>>)
    ELSE Ret(ObjOf(<<
        KV(s_home_injuries,
           MapRows(RowsOf(findSection(root, s_buffalo_injuries, s_injuryreport),
                          s_injuryreport),
                   LAMBDA row : injuryRow(row))),
        KV(s_away_injuries,
           MapRows(RowsOf(findSection(root, s_tampa_bay_injuries, s_injuryreport),
                          s_injuryreport),
                   LAMBDA row : injuryRow(row)))>>), <<>>)

headToHeadRow(row) ==
    Obj(<<KV(s_date, Or2(Prop(row, s_date), Null)),
          KV(s_winner, Or2(Prop(row, s_winner), Null)),
          KV(s_winner_home_away_neutral,
             normalizeHAN(Or2(Prop(row, s_h_a_n), Prop(row, s_han)))),
          KV(s_score, Or2(Prop(row, s_score), Null)),
          KV(s_ats_cover, Or3(Prop(row, s_ats), Prop(row, s_ats_cover), Null)),
          KV(s_ou_result, Or3(Prop(row, s_ou), Prop(row, s_ou_result), Null))>>)

extractHeadToHead(root) ==
    IF IsNullish(root) THEN Ret(Throw, <<>>)
    ELSE Ret(ObjOf(<<
        KV(s_head_to_head_since_1985_season,
           MapRows(RowsOf(findSection(root, s_head_to_head_since_1985_season_2,
                                      s_headtohead), s_headtohead),
                   LAMBDA row : headToHeadRow(row)))>>), <<>>)

\* s.replace('#', ''): the first "#" is removed.
RemoveFirstHash(s) ==
    LET hits == {i \in 1..Len(s) : s[i] = "#"}
    IN  IF hits = {} THEN s
        ELSE Sub(s, 1, Min(hits) - 1) \o Sub(s, Min(hits) + 1, Len(s))

\* v ? String(v).replace('#', '') : null
rankText(v) == IF Truthy(v) THEN Str(RemoveFirstHash(ToStringJS(v))) ELSE Null

\* parsed ? parsed.value : null
valueOf(parsed) == IF Truthy(parsed) THEN Prop(parsed, s_value) ELSE Null

comparisonRow(row) ==
    LET parsed == parsePercentRank(Or4(Prop(row, s_TB), Prop(row, s_Tb),
                                       Prop(row, s_tb), Prop(row, s_home)))
        parsed2 == parsePercentRank(Or4(Prop(row, s_BUF), Prop(row, s_Buf),
                                        Prop(row, s_buf), Prop(row, s_away)))
    IN  Obj(<<KV(s_rating, toSnakeCase(Or3(Prop(row, s_Rating), Prop(row, s_rating),
                                           Str(<<>>)))),
              KV(s_home, valueOf(parsed2)),
              KV(s_away, valueOf(parsed))>>)

powerRow(row) ==
    Obj(<<KV(s_rating, toSnakeCase(Or3(Prop(row, s_Rating), Prop(row, s_rating),
                                       Str(<<>>)))),
          KV(s_value, Or3(Prop(row, s_Value), Prop(row, s_value), Null)),
          KV(s_rank, rankText(Prop(row, s_Rank))),
          KV(s_conf_rank, rankText(Prop(row, s_Conf_Rank)))>>)

extractPowerRatings(root) ==
    IF IsNullish(root) THEN Ret(Throw, <<>>)
    ELSE Ret(ObjOf(<<
        KV(s_comparison_table,
           MapRows(RowsOf(findSection(root, s_comparison_table, s_powerratings),
                          s_powerratings),
                   LAMBDA row : comparisonRow(row))),
        KV(s_home_rankings,
           MapRows(RowsOf(findSection(root, s_teamA_rankings, s_powerratings),
                          s_powerratings),
                   LAMBDA row : powerRow(row))),
        KV(s_away_rankings,
           MapRows(RowsOf(findSection(root, s_teamB_rankings, s_powerratings),
                          s_powerratings),
                   LAMBDA row : powerRow(row)))>>), <<>>)

mapTrends(sec, home, away) ==
    MapRows(RowsOf(sec, s_situationaltrends), LAMBDA row : trendRow(row, home, away))

extractSituationalTrends(root, home, away) ==
    IF IsNullish(root) THEN Ret(Throw, <<>>)
    ELSE Ret(ObjOf(<<
        KV(s_win_loss_team_trends,
           mapTrends(findSection(root, s_Win_Loss_Team_Trends, s_situationaltrends),
                     home, away)),
        KV(s_ats_team_trends,
           mapTrends(findSection(root, s_ATS_Team_Trends, s_situationaltrends),
                     home, away)),
        KV(s_over_under_team_trends,
           mapTrends(findSection(root, s_Over_Under_Team_Trends, s_situationaltrends),
                     home, away))>>), <<>>)

\* row[`${prefix}${abbr}`]
splitCell(row, prefix, abbr) ==
    parseNumberOrNull(Prop(row, prefix \o ToStringJS(abbr)))

splitRow(row, home, away) ==
    Obj(<<KV(s_split_stat, toSnakeCase(Or3(Prop(row, s_Split_Stat), Prop(row, s_stat),
                                           Str(<<>>)))),
          KV(s_season_home, splitCell(row, s_Season, home)),
          KV(s_season_away, splitCell(row, s_Season, away)),
          KV(s_last3_home, splitCell(row, s_Last_3_Games, home)),
          KV(s_last3_away, splitCell(row, s_Last_3_Games, away)),
          KV(s_home_vs_home_home, splitCell(row, s_Away_vs_Home, away)),
          KV(s_away_vs_home_away, splitCell(row, s_Away_vs_Home, home))>>)

mapSplit(sec, home, away) ==
    MapRows(RowsOf(sec, s_statsplits), LAMBDA row : splitRow(row, home, away))

extractStatSplits(root, home, away) ==
    IF IsNullish(root) THEN Ret(Throw, <<>>)
    ELSE Ret(ObjOf(<<
        KV(s_scoring_and_yardage_last_season,
           mapSplit(findSection(root, s_Scoring_Yardage, s_statsplits), home, away)),
        KV(s_offensive_efficiency_last_season,
           mapSplit(findSection(root, s_Offensive_Efficiency, s_statsplits), home, away)),
        KV(s_defensive_efficiency_last_season,
           mapSplit(findSection(root, s_Defensive_Efficiency, s_statsplits), home, away)),
        KV(s_turnovers_penalties_top_last_season,
           mapSplit(findSection(root, s_Turnovers_Penalties_TOP, s_statsplits),
                    home, away))>>), <<>>)

matchupHomeRow(row) ==
    Obj(<<KV(s_stat, toSnakeCase(Or4(Prop(row, s_tb), Prop(row, s_buf),
                                     Prop(row, s_stat), Str(<<>>)))),
          KV(s_home, parsePercentRank(Prop(row, s_value_rank_1))),
          KV(s_away_opponent, parsePercentRank(Prop(row, s_value_rank)))>>)

matchupAwayRow(row) ==
    Obj(<<KV(s_stat, toSnakeCase(Or4(Prop(row, s_buf), Prop(row, s_tb),
                                     Prop(row, s_stat), Str(<<>>)))),
          KV(s_home, parsePercentRank(Prop(row, s_value_rank))),
          KV(s_away_opponent, parsePercentRank(Prop(row, s_value_rank_1)))>>)

\* The seven facets mapMatchup is called for, in the order of the calls.
matchupFacets ==
    <<s_overall, s_rushing, s_passing, s_kicking, s_turnovers, s_penalties, s_other>>

\* One try { mapMatchup(...) } catch: the keys it managed to set on `out`,
\* and whether the catch printed its warning.
mapMatchup(sections, facet) ==
    LET arrHome == MapRows(RowsOf(Prop(sections, s_tampa_bay_vs_buffalo \o facet),
                                  s_matchupstats),
                           LAMBDA row : matchupHomeRow(row))
        arrAway == MapRows(RowsOf(Prop(sections, s_buffalo_vs_tampa_bay \o facet),
                                  s_matchupstats),
                           LAMBDA row : matchupAwayRow(row))
        keyNameHome == s_home_vs_away \o facet \o s_last_season
        keyNameAway == s_away_vs_home \o facet \o s_last_season
    IN  IF arrHome = Throw THEN [kv |-> <<>>, caught |-> TRUE]
        ELSE IF arrAway = Throw
        THEN [kv |-> <<KV(keyNameHome, arrHome)>>, caught |-> TRUE]
        ELSE [kv |-> <<KV(keyNameHome, arrHome), KV(keyNameAway, arrAway)>>,
              caught |-> FALSE]

\* The line the catch of a facet prints (followed by the error's message).
W_matchup ==
    <<s_matchupstats_overall_mapping_issue,
      s_matchupstats_rushing_mapping_issue,
      s_matchupstats_passing_mapping_issue,
      s_matchupstats_kicking_mapping_issue,
      s_matchupstats_turnovers_mapping_issue,
      s_matchupstats_penalties_mapping_issue,
      s_matchupstats_other_mapping_issue>>

RECURSIVE matchupLoop(_, _, _)
matchupLoop(sections, i, acc) ==
    IF i > Len(matchupFacets) THEN acc
    ELSE LET m == mapMatchup(sections, matchupFacets[i])
         IN  matchupLoop(sections, i + 1,
                 Ret(Obj(acc.v.kv \o m.kv),
                     acc.w \o (IF m.caught THEN <<W_matchup[i]>> ELSE <<>>)))

extractMatchupStats(root) ==
    IF IsNullish(root) THEN Ret(Throw, <<>>)
    ELSE matchupLoop(sectionsOf(root), 1, Ret(Obj(<<>>), <<>>))

\* sec && Array.isArray(sec.similargamesanalysis) ? sec.similargamesanalysis : []
similarOf(sec) ==
    IF Truthy(sec) /\ Prop(sec, s_similargamesanalysis).t = "arr"
    THEN Prop(sec, s_similargamesanalysis)
    ELSE Arr(<<>>)

extractSimilarGames(root) ==
    LET sections == sectionsOf(root)
        tb == Prop(sections, s_tampa_bay_season_performance)
        buf == Prop(sections, s_buffalo_season_performance)
        meta == Prop(root, s_meta)
        matchupKey == IF Truthy(meta) /\ Truthy(Prop(meta, s_matchupTitle))
                      THEN Prop(meta, s_matchupTitle) ELSE Null
    IN  IF IsNullish(root) THEN Ret(Throw, <<>>)
        ELSE Ret(Obj(<<KV(s_matchup_key, matchupKey),
                       KV(s_home_similar_games, similarOf(buf)),
                       KV(s_away_similar_games, similarOf(tb))>>), <<>>)

extractTravelAnalysis(root, home, away) ==
    LET sec == findSection(root, s_travel_analysis, s_travelanalysis)
        obj == IF Truthy(sec) /\ Truthy(Prop(sec, s_travelanalysis))
               THEN Prop(sec, s_travelanalysis) ELSE Obj(<<>>)
    IN  IF IsNullish(root) THEN Ret(Throw, <<>>)
        ELSE Ret(Obj(<<KV(s_travel_analysis,
                          Obj(<<KV(s_home_team, home),
                                KV(s_away_team, away),
                                KV(s_away_team_travel_miles,
                                   parseNumberOrNull(
                                       Or2(Prop(obj, s_away_team_travel_miles),
                                           Prop(obj, s_away_miles))))>>))>>), <<>>)

-----------------------------------------------------------------------------
(* convertCompiledNFLObject *)

\* The mappers in the order convertCompiledNFLObject calls them, each with
\* the top-level key its result is returned under.
mapperCalls(root, home, away, seasonYear, t) ==
    <<[key |-> s_meta, r |-> extractMeta(root, home, away, seasonYear, t)],
      [key |-> s_moneylinemovement,
       r |-> extractMoneyLineMovement(root, home, away, seasonYear, t)],
      [key |-> s_pointspreadlinemovement,
       r |-> extractSpreadMovement(root, home, away, seasonYear, t)],
      [key |-> s_overunderlinemovement,
       r |-> extractTotalsMovement(root, home, away, seasonYear, t)],
      [key |-> s_moneylineanalysis, r |-> extractMoneylineAnalysis(root, home, away)],
      [key |-> s_pointspreadanalysis, r |-> extractPointspreadAnalysis(root, home, away)],
      [key |-> s_overunderanalysis, r |-> extractOverUnderAnalysis(root, home, away)],
      [key |-> s_dualgamelog, r |-> extractDualGameLog(root, home, away)],
      [key |-> s_efficiencystats, r |-> extractEfficiencyStats(root, home, away)],
      [key |-> s_overview, r |-> extractOverview(root, home, away)],
      [key |-> s_injuryreport, r |-> extractInjuries(root, home, away)],
      [key |-> s_headtohead, r |-> extractHeadToHead(root)],
      [key |-> s_powerratings, r |-> extractPowerRatings(root)],
      [key |-> s_situationaltrends, r |-> extractSituationalTrends(root, home, away)],
      [key |-> s_statsplits, r |-> extractStatSplits(root, home, away)],
      [key |-> s_matchupstats, r |-> extractMatchupStats(root)],
      [key |-> s_similargamesanalysis, r |-> extractSimilarGames(root)],
      [key |-> s_travelanalysis, r |-> extractTravelAnalysis(root, home, away)]>>

\* The keys of the returned object literal, in its order, but for the last.
documentKeys_short ==
    <<s_meta, s_dualgamelog, s_efficiencystats, s_headtohead, s_injuryreport,
      s_matchupstats, s_moneylineanalysis, s_moneylinemovement, s_overunderanalysis,
      s_overunderlinemovement, s_overview, s_pointspreadanalysis,
      s_pointspreadlinemovement, s_powerratings, s_similargamesanalysis,
      s_situationaltrends, s_statsplits>>

\* The keys of the returned object literal, in its order.
documentKeys ==
    <<s_meta, s_dualgamelog, s_efficiencystats, s_headtohead, s_injuryreport,
      s_matchupstats, s_moneylineanalysis, s_moneylinemovement, s_overunderanalysis,
      s_overunderlinemovement, s_overview, s_pointspreadanalysis,
      s_pointspreadlinemovement, s_powerratings, s_similargamesanalysis,
      s_situationaltrends, s_statsplits, s_travelanalysis>>

RECURSIVE Flatten(_)
Flatten(ss) == IF ss = <<>> THEN <<>> ELSE Head(ss) \o Flatten(Tail(ss))

\* The call: [v |-> the document, or Throw when a mapper raised,
\*            w |-> the warnings printed, done |-> the keys of the mappers that
\*            returned, part |-> what they returned].
convertCompiledNFLObject_raised(calls) ==
    {i \in 1..Len(calls) : calls[i].r.v = Throw}

convertCompiledNFLObject_return(calls, raised) ==
    LET ran == IF raised = {} THEN Len(calls) ELSE Min(raised)
        ok == IF raised = {} THEN Len(calls) ELSE Min(raised) - 1
        valueOfKey(k) == calls[CHOOSE i \in 1..Len(calls) : calls[i].key = k].r.v
    IN  [v |-> IF raised # {} THEN Throw
               ELSE Obj([i \in 1..Len(documentKeys) |->
                            KV(documentKeys[i], valueOfKey(documentKeys[i]))]),
         w |-> Flatten([i \in 1..ran |-> calls[i].r.w]),
         done |-> [i \in 1..ok |-> calls[i].key],
         part |-> [i \in 1..ok |-> calls[i].r.v]]

convertCompiledNFLObject_calls(calls) ==
    convertCompiledNFLObject_return(calls, convertCompiledNFLObject_raised(calls))

convertCompiledNFLObject(root, home, away, seasonYear, t) ==
    convertCompiledNFLObject_calls(mapperCalls(root, home, away, seasonYear, t))

-----------------------------------------------------------------------------
(* The documents and team contexts the converter is run on *)

True == [t |-> "bool", b |-> TRUE]

\* { sections: { ...kvs } }
WithSections(kvs) == KV(s_sections, Obj(kvs))

\* { name: { key: value } }, one entry of a sections object
Section(name, key, value) == KV(name, Obj(<<KV(key, value)>>))

\* { raw: { key: { data: { sections: { name: { key: value } } } } } }
Mirror(name, key, value) ==
    KV(s_raw, Obj(<<KV(key, Obj(<<KV(s_data,
        Obj(<<WithSections(<<Section(name, key, value)>>)>>))>>))>>))

rowNov ==
    Obj(<<KV(s_timestamp, Str(Nov16Text)), KV(s_BUF, Str(s_n_150)),
          KV(s_TB, Str(s_n_130))>>)
rowCurrent ==
    Obj(<<KV(s_label, Str(s_Current)), KV(s_buf, Str(s_n_155)), KV(s_tb, IntV(135))>>)
rowSlash ==
    Obj(<<KV(s_time_stamp, Str(s_11_16_9_05_AM)), KV(s_BUF, Str(s_n_160))>>)
rowMarker ==
    Obj(<<KV(s_label, Str(s_historic_line_movement_3)), KV(s_BUF, Str(s_n_100)),
          KV(s_TB, Str(s_n_100_2))>>)
rowNoOdds == Obj(<<KV(s_label, Str(s_Open)), KV(s_BUF, Str(s_empty_2))>>)
rowMirror ==
    Obj(<<KV(s_timestamp, Str(s_Nov_17_1_00_AM)), KV(s_BUF, Str(s_n_175)),
          KV(s_TB, Str(s_n_150_2))>>)

HistRows == {rowNov, rowCurrent, rowSlash, rowMarker, rowNoOdds, Null, IntV(5)}

MoneyLineExact ==
    {<<>>,
     <<WithSections(<<>>)>>,
     <<WithSections(<<KV(s_Money_Line_History, Null)>>)>>,
     <<WithSections(<<KV(s_Money_Line_History, Obj(<<>>))>>)>>,
     <<WithSections(<<Section(s_Money_Line_History, s_moneylinemovement, Str(s_n_a))>>)>>}
    \cup {<<WithSections(<<Section(s_Money_Line_History, s_moneylinemovement, Arr(rows))>>)>> :
            rows \in StringsUpTo(HistRows, MaxRows)}

MoneyLineMirrored ==
    {<<>>,
     <<Mirror(s_Money_Line_History, s_moneylinemovement, Arr(<<rowMirror>>))>>,
     <<Mirror(s_Money_Line_History, s_moneylinemovement, Arr(<<rowNov, rowCurrent>>))>>}

MoneyLineElsewhere ==
    {<<>>,
     <<KV(s_data, Obj(<<KV(s_Money_Line_History, Arr(<<rowMirror>>))>>))>>}

MoneyLineRoots ==
    {Obj(e \o m \o x) :
        e \in MoneyLineExact, m \in MoneyLineMirrored, x \in MoneyLineElsewhere}

rangeOpenHigh ==
    Obj(<<KV(s_price_label_1, Str(s_Open)), KV(s_price_1, Str(s_n_150)),
          KV(s_price_label_2, Str(s_High)), KV(s_price_2, Str(s_n_140))>>)
rangeLowLast ==
    Obj(<<KV(s_price_label_1, Str(s_Low)), KV(s_price_1, Str(s_n_170)),
          KV(s_price_label_2, Str(s_Last)), KV(s_price_2, IntV(0 - 155))>>)
rangeOpening ==
    Obj(<<KV(s_price_label_1, Str(s_Opening_Line)), KV(s_price_1, Str(s_n_120))>>)

RangeRows == {rangeOpenHigh, rangeLowLast, rangeOpening, Null}

MenuNames == {s_Matchup_Menu_TB_BUF, s_matchup_menu}
MenuKeys == {s_moneylinemovement, s_pointspreadlinemovement, s_overunderlinemovement}

LineMovement ==
    {<<>>, <<Section(s_Line_Movement, s_moneylinemovement, Arr(<<rangeLowLast>>))>>}

RangeRoots ==
    {Obj(<<WithSections(<<Section(n, k, Arr(rows))>> \o l)>>) :
        n \in MenuNames, k \in MenuKeys, rows \in StringsUpTo(RangeRows, MaxRows),
        l \in LineMovement}

\* A row carrying every field some mapper reads.
richRow ==
    Obj(<<KV(s_timestamp, Str(s_Current)), KV(s_label, Str(s_Nov_16_12_18_PM)),
          KV(s_spread, Str(s_n_3_5)), KV(s_total, Str(s_n_44_5)),
          KV(s_Record, Str(s_n_3_1)), KV(s_BUF, Str(s_n_55_5)), KV(s_TB, IntV(12)),
          KV(s_Model, Str(s_Decision_Tree)), KV(s_Pick, Str(s_BUF_3)),
          KV(s_stat, Str(s_Yards_Game)), KV(s_buf, Str(s_n_36_52)),
          KV(s_tb, Str(s_n_5_1)),
          KV(s_week, IntV(1)), KV(s_opponent, Str(s_MIA)), KV(s_rank, Str(s_n_12)),
          KV(s_h_a_n, Str(s_h)), KV(s_score, Str(s_n_31_10)),
          KV(s_name, Str(s_J_Doe)), KV(s_pos, Str(s_WR)),
          KV(s_status, Str(s_Questionable)),
          KV(s_date, Str(s_n_12_12_2021)), KV(s_winner, Str(s_BUF)),
          KV(s_ats, Str(s_BUF)),
          KV(s_Rating, Str(s_Predictive)), KV(s_Value, Str(s_n_7_1)),
          KV(s_Rank, Str(s_n_3)),
          KV(s_Split_Stat, Str(s_Points_Game)), KV(s_Season_BUF, Str(s_n_24_5)),
          KV(s_Away_vs_Home_TB, Str(s_n_1_024)),
          KV(s_value_rank_1, Str(s_n_36_52_14)), KV(s_value_rank, Str(s_n_4_1_3)),
          KV(s_away_miles, Str(s_n_1_234))>>)

\* Every (section, domain key) pair a mapper passes to findSection.
findSectionCalls ==
    <<<<s_Money_Line_History, s_moneylinemovement>>,
      <<s_Line_Movement, s_moneylinemovement>>,
      <<s_Spread_History, s_pointspreadlinemovement>>,
      <<s_Totals_History, s_overunderlinemovement>>,
      <<s_money_line_situational_trends, s_moneylineanalysis>>,
      <<s_ATS_Predictions, s_pointspreadanalysis>>,
      <<s_ATS_Situational_Trends, s_pointspreadanalysis>>,
      <<s_Over_Under_Predictions, s_overunderanalysis>>,
      <<s_Over_Under_Situational_Trends, s_overunderanalysis>>,
      <<s_key_offensive_stats, s_efficiencystats>>,
      <<s_key_defensive_stats, s_efficiencystats>>,
      <<s_tampa_bayvsbuffalo_offensive_efficiency, s_efficiencystats>>,
      <<s_tampa_bayvsbuffalo_defensive_efficiency, s_efficiencystats>>,
      <<s_Offensive_Stat_Comparison, s_overview>>,
      <<s_Defensive_Stat_Comparison, s_overview>>,
      <<s_buffalo_injuries, s_injuryreport>>,
      <<s_tampa_bay_injuries, s_injuryreport>>,
      <<s_head_to_head_since_1985_season_2, s_headtohead>>,
      <<s_comparison_table, s_powerratings>>,
      <<s_teamA_rankings, s_powerratings>>,
      <<s_teamB_rankings, s_powerratings>>,
      <<s_Win_Loss_Team_Trends, s_situationaltrends>>,
      <<s_ATS_Team_Trends, s_situationaltrends>>,
      <<s_Over_Under_Team_Trends, s_situationaltrends>>,
      <<s_Scoring_Yardage, s_statsplits>>,
      <<s_Offensive_Efficiency, s_statsplits>>,
      <<s_Defensive_Efficiency, s_statsplits>>,
      <<s_Turnovers_Penalties_TOP, s_statsplits>>,
      <<s_travel_analysis, s_travelanalysis>>>>

\* The (section, domain key) pairs read straight from root.sections.
directReads ==
    <<<<s_buffalo_season_performance, s_dualgamelog>>,
      <<s_tampa_bay_season_performance, s_dualgamelog>>,
      <<s_buffalo_season_performance, s_similargamesanalysis>>,
      <<s_tampa_bay_season_performance, s_similargamesanalysis>>>>
    \o [i \in 1..Len(matchupFacets) |->
            <<s_tampa_bay_vs_buffalo \o matchupFacets[i], s_matchupstats>>]
    \o [i \in 1..Len(matchupFacets) |->
            <<s_buffalo_vs_tampa_bay \o matchupFacets[i], s_matchupstats>>]

\* What a section may hold under its domain key.
SectionShapes ==
    {Arr(<<richRow>>), Arr(<<richRow, Obj(<<>>)>>), Arr(<<Null>>),
     Arr(<<richRow, Null>>), Str(s_n_a), richRow}

Range(f) == {f[i] : i \in DOMAIN f}

SectionRoots ==
    {Obj(<<WithSections(<<Section(c[1], c[2], v)>>)>>) :
        c \in Range(findSectionCalls) \cup Range(directReads), v \in SectionShapes}
    \cup {Obj(<<Mirror(c[1], c[2], Arr(<<richRow>>))>>) : c \in Range(findSectionCalls)}
    \cup {Obj(<<WithSections(<<Section(c[1], c[2], Arr(<<richRow>>))>>),
                Mirror(c[1], c[2], Arr(<<Obj(<<>>)>>))>>) :
            c \in Range(findSectionCalls)}

\* A document with every section in place.
fullRoot ==
    Obj(<<KV(s_meta, Obj(<<KV(s_matchupId, Str(s_m1)),
                           KV(s_matchupTitle, Str(s_TB_BUF))>>)),
          WithSections(
              [i \in 1..Len(findSectionCalls) |->
                  Section(findSectionCalls[i][1], findSectionCalls[i][2],
                          IF findSectionCalls[i][2] = s_travelanalysis
                          THEN richRow ELSE Arr(<<richRow>>))]
              \o <<Section(s_Matchup_Menu_TB_BUF, s_moneylinemovement,
                           Arr(<<rangeOpenHigh, rangeLowLast>>))>>)>>)

\* Money line histories of up to MaxSeries rows: rows labelled current in
\* several spellings, a dated row, a marker row with odds and a row
\* without odds.
MaxSeries == 3

rowCurrent160 ==
    Obj(<<KV(s_time_stamp, Str(s_Current)), KV(s_BUF, Str(s_n_160)),
          KV(s_TB, Str(s_140))>>)
rowNov150 ==
    Obj(<<KV(s_time_stamp, Str(s_Nov_16_12_18_PM)), KV(s_BUF, Str(s_n_150)),
          KV(s_TB, Str(s_130))>>)
rowCurrentUpper ==
    Obj(<<KV(s_label, Str(s_CURRENT)), KV(s_BUF, Str(s_n_175)),
          KV(s_TB, Str(s_n_150_2))>>)
rowCurrentPadded ==
    Obj(<<KV(s_label, Str(s_Current_padded)), KV(s_BUF, Str(s_n_120)),
          KV(s_TB, Str(s_n_100_2))>>)

SeriesRows ==
    {rowCurrent160, rowNov150, rowCurrentUpper, rowCurrentPadded, rowMarker,
     rowNoOdds}

SeriesRoot(rows) ==
    Obj(<<WithSections(<<Section(s_Money_Line_History, s_moneylinemovement,
                                 Arr(rows))>>)>>)

SeriesRoots == {SeriesRoot(rows) : rows \in StringsUpTo(SeriesRows, MaxSeries)}

\* Injury reports: rows with a status of the four tokens, another one,
\* and none.
injuryOut == Obj(<<KV(s_name, Str(s_J_Doe)), KV(s_status, Str(s_Out))>>)
injuryDoubtful == Obj(<<KV(s_name, Str(s_J_Doe)), KV(s_status, Str(s_Doubtful))>>)
injuryNoStatus == Obj(<<KV(s_name, Str(s_J_Doe)), KV(s_pos, Str(s_WR))>>)

InjuryRows == {richRow, injuryOut, injuryDoubtful, injuryNoStatus}

InjuryRoots ==
    {Obj(<<WithSections(<<Section(n, s_injuryreport, Arr(rows))>>)>>) :
        n \in {s_buffalo_injuries, s_tampa_bay_injuries},
        rows \in StringsUpTo(InjuryRows, MaxRows)}

\* Roots that are not JSON objects, the empty object and a complete one.
EdgeRoots ==
    {Null, Arr(<<>>), Arr(<<rowNov>>), IntV(7), Str(s_abc), True,
     Obj(<<>>), fullRoot}

BUF == Str(s_BUF)
TB == Str(s_TB)

\* <<HOME_ABBR, AWAY_ABBR>>
EdgeTeams == {<<BUF, TB>>, <<Str(<<>>), TB>>, <<BUF, Undef>>, <<Undef, Undef>>}

Seasons == {IntV(2021), Null}

\* Money line histories whose rows name their columns in several ways: by
\* the abbreviations, by the abbreviations in lower case, by the
\* abbreviations of two other teams, and with one column only.
rowAlien ==
    Obj(<<KV(s_timestamp, Str(s_Nov_17_1_00_AM)), KV(s_KC, Str(s_n_150)),
          KV(s_DEN, Str(s_130))>>)
rowOneColumn == Obj(<<KV(s_label, Str(s_Open)), KV(s_KC, Str(s_n_160))>>)

ColumnRows == {rowNov, rowCurrent, rowAlien, rowOneColumn}

ColumnRoots == {SeriesRoot(rows) : rows \in StringsUpTo(ColumnRows, MaxRows)}

\* The team context and the same context with the two roles exchanged.
ColumnTeams == {<<BUF, TB>>, <<TB, BUF>>}

\* Spread and totals histories: a dated row, rows labelled current with and
\* without a value, and rows with two of the three label fields.
mvDated ==
    Obj(<<KV(s_timestamp, Str(s_Nov_16_12_18_PM)), KV(s_spread, Str(s_n_3_5)),
          KV(s_total, Str(s_n_44_5))>>)
mvCurrent ==
    Obj(<<KV(s_label, Str(s_CURRENT)), KV(s_spread, Str(s_n_4)),
          KV(s_total, IntV(45))>>)
mvCurrentNoValue ==
    Obj(<<KV(s_label, Str(s_Current)), KV(s_spread, Str(s_n_a)),
          KV(s_total, Null)>>)
mvTimeStamp ==
    Obj(<<KV(s_time_stamp, Str(s_11_16_9_05_AM)), KV(s_label, Str(s_Open)),
          KV(s_spread, IntV(0 - 3)), KV(s_total, Str(s_n_44_5))>>)
mvTwoLabels ==
    Obj(<<KV(s_timestamp, Str(s_Nov_17_1_00_AM)), KV(s_label, Str(s_Open)),
          KV(s_spread, Str(s_n_3_5)), KV(s_total, IntV(45))>>)

MovementRows == {mvDated, mvCurrent, mvCurrentNoValue, mvTimeStamp, mvTwoLabels}

MovementRoot(rows) ==
    Obj(<<WithSections(<<Section(s_Spread_History, s_pointspreadlinemovement,
                                 Arr(rows)),
                         Section(s_Totals_History, s_overunderlinemovement,
                                 Arr(rows))>>)>>)

MovementRoots == {MovementRoot(rows) : rows \in StringsUpTo(MovementRows, MaxRows)}

\* <<input, HOME_ABBR, AWAY_ABBR, SEASON_YEAR>>
Calls ==
    {<<r, BUF, TB, y>> : r \in MoneyLineRoots, y \in Seasons}
    \cup {<<r, BUF, TB, IntV(2021)>> : r \in RangeRoots \cup SectionRoots \cup InjuryRoots
                                            \cup SeriesRoots \cup MovementRoots}
    \cup {<<r, c[1], c[2], y>> : r \in EdgeRoots, c \in EdgeTeams, y \in Seasons}
    \cup {<<r, c[1], c[2], IntV(2021)>> : r \in ColumnRoots \cup {fullRoot},
                                          c \in ColumnTeams}

-----------------------------------------------------------------------------
(* The conversion as a state machine *)

Init ==
    /\ pc = "ready"
    /\ arg = Undef
    /\ ret = Undef
    /\ \E c \in Calls :
        /\ input = c[1]
        /\ HOME_ABBR = c[2]
        /\ AWAY_ABBR = c[3]
        /\ SEASON_YEAR = c[4]
    /\ now = 0
    /\ done = <<>>
    /\ part = <<>>
    /\ warnings = <<>>
    /\ compiled = Undef

\* Time passes before the call is made.
Tick ==
    /\ pc = "ready"
    /\ now < MaxNow
    /\ now' = now + 1
    /\ UNCHANGED <<pc, arg, ret, input, HOME_ABBR, AWAY_ABBR, SEASON_YEAR,
                   done, part, warnings, compiled>>

\* A conversion that writes the compiled document over its input.
Convert_inPlace ==
    /\ pc = "ready"
    /\ \E r \in {convertCompiledNFLObject(input, HOME_ABBR, AWAY_ABBR, SEASON_YEAR, now)} :
           /\ pc' = IF r.v = Throw THEN "threw" ELSE "returned"
           /\ compiled' = IF r.v = Throw THEN Undef ELSE r.v
           /\ input' = IF r.v = Throw THEN input ELSE r.v
           /\ warnings' = r.w
           /\ done' = r.done
           /\ part' = r.part
    /\ UNCHANGED <<arg, ret, HOME_ABBR, AWAY_ABBR, SEASON_YEAR, now>>

\* convertCompiledNFLObject(input, HOME_ABBR, AWAY_ABBR, SEASON_YEAR), whole.
Convert ==
    /\ pc = "ready"
    /\ \E r \in {convertCompiledNFLObject(input, HOME_ABBR, AWAY_ABBR, SEASON_YEAR, now)} :
           /\ pc' = IF r.v = Throw THEN "threw" ELSE "returned"
           /\ compiled' = IF r.v = Throw THEN Undef ELSE r.v
           /\ warnings' = r.w
           /\ done' = r.done
           /\ part' = r.part
    /\ UNCHANGED <<arg, ret, input, HOME_ABBR, AWAY_ABBR, SEASON_YEAR, now>>

Next == Tick \/ Convert

Spec == Init /\ [][Next]_vars

-----------------------------------------------------------------------------
(* The returned document *)

\* The eighteen top-level keys of a normalized document.
TopLevelKeys ==
    {s_meta, s_dualgamelog, s_efficiencystats, s_headtohead, s_injuryreport,
     s_matchupstats, s_moneylineanalysis, s_moneylinemovement, s_overunderanalysis,
     s_overunderlinemovement, s_overview, s_pointspreadanalysis,
     s_pointspreadlinemovement, s_powerratings, s_similargamesanalysis,
     s_situationaltrends, s_statsplits, s_travelanalysis}

\* A value that carries no data: null, an empty array, or an object whose
\* members all carry none.
RECURSIVE IsEmptyValue(_)
IsEmptyValue(v) ==
    CASE v.t = "null" -> TRUE
      [] v.t = "arr" -> v.el = <<>>
      [] v.t = "obj" -> \A i \in 1..Len(v.kv) : IsEmptyValue(v.kv[i].v)
      [] OTHER -> FALSE

\* The keys whose value restates the call's arguments, whatever the root.
ContextKeys == {s_meta, s_travelanalysis}

\* The root has neither sections nor a raw mirror: no source data at all.
NoSourceData == input.t = "obj" /\ ~HasKey(input, s_sections) /\ ~HasKey(input, s_raw)
                    /\ ~HasKey(input, s_meta)

Called == pc # "ready"

\* C1: whenever convertCompiledNFLObject returns a document, the document
\* has exactly the 18 top-level keys and each of them is an object (none is
\* undefined or missing); and a root without any source data does get a
\* document, in which every key but those restating the team context is an
\* empty container or all-null, and the travel miles are null.
C1_AllKeysPresent ==
    /\ pc = "returned" =>
        /\ compiled.t = "obj"
        /\ {compiled.kv[i].k : i \in 1..Len(compiled.kv)} = TopLevelKeys
        /\ Len(compiled.kv) = Cardinality(TopLevelKeys)
        /\ \A i \in 1..Len(compiled.kv) : compiled.kv[i].v.t = "obj"
    /\ Called /\ NoSourceData =>
        /\ pc = "returned"
        /\ \A k \in TopLevelKeys \ ContextKeys : IsEmptyValue(Prop(compiled, k))
        /\ get(compiled, <<s_travelanalysis, s_travel_analysis,
                           s_away_team_travel_miles>>) = Null

C1_Witness ==
    /\ pc = "returned"
    /\ input = Obj(<<>>)
    /\ HOME_ABBR = BUF
    /\ Prop(compiled, s_injuryreport) =
          Obj(<<KV(s_home_injuries, Arr(<<>>)), KV(s_away_injuries, Arr(<<>>))>>)

\* Every section label a mapper looks for in the document.
LookedUp ==
    {c[1] : c \in Range(findSectionCalls) \cup Range(directReads)}

\* The warnings that name a section.
Naming(label) ==
    {i \in 1..Len(warnings) : includes(toLowerCase(warnings[i]), toLowerCase(label))}

\* C2: convert on {} with a valid team context returns the all-default
\* document, and its diagnostics hold exactly one warning naming each
\* section a mapper looked up and did not find.
C2_EmptyObjectDiagnostics ==
    (Called /\ input = Obj(<<>>) /\ HOME_ABBR = BUF /\ AWAY_ABBR = TB) =>
        /\ pc = "returned"
        /\ \A k \in TopLevelKeys \ ContextKeys : IsEmptyValue(Prop(compiled, k))
        /\ \A label \in LookedUp : Cardinality(Naming(label)) = 1

\* The call's input is fatal: the root is not a JSON object, or a team
\* abbreviation is missing or empty.
FatalInput == input.t # "obj" \/ ~Truthy(HOME_ABBR) \/ ~Truthy(AWAY_ABBR)

\* C3: a fatal input is rejected before any mapper runs: the call fails, no
\* mapper has returned and no document, partial or complete, comes back.
C3_FatalInputsRejected ==
    (Called /\ FatalInput) =>
        /\ pc = "threw"
        /\ done = <<>>
        /\ compiled = Undef

\* C4: for an object root and a valid team context the conversion never
\* fails, whatever the shape of a section: all 18 mappers run and a complete
\* document is returned.
C4_ShapeMismatchNeverAborts ==
    (Called /\ input.t = "obj" /\ Truthy(HOME_ABBR) /\ Truthy(AWAY_ABBR)) =>
        /\ pc = "returned"
        /\ Len(done) = Cardinality(TopLevelKeys)
        /\ {compiled.kv[i].k : i \in 1..Len(compiled.kv)} = TopLevelKeys

\* The value at the exact path sections[name].<domainKey>
ExactAt(name, key) == get(input, <<s_sections, name, key>>)

\* The value at the mirrored path raw.<domainKey>.data.sections[name].<domainKey>
MirroredAt(name, key) == get(input, <<s_raw, key, s_data, s_sections, name, key>>)

\* result.history of the returned moneylinemovement
ReturnedHistory == get(compiled, <<s_moneylinemovement, s_history>>)

\* The history the moneyline mapper extracts from the rows of an array.
HistoryFrom(rowsArr) ==
    Arr(mlHistory(rowsArr.el, HOME_ABBR, AWAY_ABBR, SEASON_YEAR, now))

\* C5: when a section's array exists both at the exact path and at the
\* mirrored path, with different content, the locator returns the section of
\* the exact path, and the moneyline history is the one extracted from the
\* exact array.
C5_ExactPathWins ==
    /\ \A c \in Range(findSectionCalls) :
        (ExactAt(c[1], c[2]).t = "arr" /\ MirroredAt(c[1], c[2]).t = "arr"
            /\ ExactAt(c[1], c[2]) # MirroredAt(c[1], c[2])) =>
                Prop(findSection(input, c[1], c[2]), c[2]) = ExactAt(c[1], c[2])
    /\ (pc = "returned"
        /\ ExactAt(s_Money_Line_History, s_moneylinemovement).t = "arr"
        /\ MirroredAt(s_Money_Line_History, s_moneylinemovement).t = "arr"
        /\ ExactAt(s_Money_Line_History, s_moneylinemovement) #
              MirroredAt(s_Money_Line_History, s_moneylinemovement)) =>
            ReturnedHistory =
                HistoryFrom(ExactAt(s_Money_Line_History, s_moneylinemovement))

C5_Witness ==
    /\ pc = "returned"
    /\ ExactAt(s_Money_Line_History, s_moneylinemovement) = Arr(<<rowNov>>)
    /\ MirroredAt(s_Money_Line_History, s_moneylinemovement) = Arr(<<rowMirror>>)
    /\ SEASON_YEAR = IntV(2021)
    /\ ReturnedHistory =
          Arr(<<Obj(<<KV(s_timestamp, Str(IsoExample)), KV(s_label, Str(Nov16Text)),
                      KV(s_home, IntV(0 - 150)), KV(s_away, IntV(130))>>)>>)

\* C6: whenever the exact path does not yield the Money Line History array
\* and the mirrored path is an array, the moneyline history is the one
\* extracted from the mirrored array.
C6_MirroredFallback ==
    (pc = "returned"
        /\ ExactAt(s_Money_Line_History, s_moneylinemovement).t # "arr"
        /\ MirroredAt(s_Money_Line_History, s_moneylinemovement).t = "arr") =>
            ReturnedHistory =
                HistoryFrom(MirroredAt(s_Money_Line_History, s_moneylinemovement))

\* C7: when the Money Line History array is at neither the exact nor the
\* mirrored path but elsewhere in the document under a key containing
\* "money line" and "history", the moneyline history is extracted from it
\* and the section is not reported as not found.
C7_StructuralSearch ==
    (pc = "returned"
        /\ ExactAt(s_Money_Line_History, s_moneylinemovement).t # "arr"
        /\ MirroredAt(s_Money_Line_History, s_moneylinemovement).t # "arr"
        /\ get(input, <<s_data, s_Money_Line_History>>).t = "arr") =>
            /\ ReturnedHistory =
                  HistoryFrom(get(input, <<s_data, s_Money_Line_History>>))
            /\ \A i \in 1..Len(warnings) : warnings[i] # W_mlHistory

-----------------------------------------------------------------------------
(* The injury report *)

StatusTokens == {Str(s_QUESTIONABLE), Str(s_PROBABLE), Str(s_OUT), Str(s_I_R)}

\* The entries of injuryreport.home_injuries and injuryreport.away_injuries
\* of the compiled document.
CompiledInjuries ==
    get(compiled, <<s_injuryreport, s_home_injuries>>).el
        \o get(compiled, <<s_injuryreport, s_away_injuries>>).el

\* C14: every status in the injury report of a compiled document is one of
\* QUESTIONABLE, PROBABLE, OUT, I-R.
C14_StatusRestricted ==
    pc = "returned" =>
        \A i \in 1..Len(CompiledInjuries) :
            Prop(CompiledInjuries[i], s_status) \in StatusTokens

-----------------------------------------------------------------------------
(* Range reduction *)

Buckets == {s_open, s_high, s_low, s_last}

\* The rows range_home is reduced from, when the input has them.
HomeRangeRows ==
    LET menu == matchupMenuOf(input, HOME_ABBR, AWAY_ABBR)
    IN  IF Truthy(menu) /\ Prop(menu, s_moneylinemovement).t = "arr"
        THEN Prop(menu, s_moneylinemovement).el
        ELSE <<>>

\* The (label, value) pairs of the rows, in input order: price_label_1 /
\* price_1 before price_label_2 / price_2 within a row.
RangePairs(rows) ==
    Flatten([i \in 1..Len(rows) |->
        <<[l |-> Prop(rows[i], s_price_label_1), v |-> Prop(rows[i], s_price_1)],
          [l |-> Prop(rows[i], s_price_label_2), v |-> Prop(rows[i], s_price_2)]>>])

\* The positions of the pairs whose label contains the bucket's name.
Claimants(pairs, bucket) ==
    {i \in 1..Len(pairs) :
        Truthy(pairs[i].l)
            /\ includes(toLowerCase(ToStringJS(pairs[i].l)), bucket)}

FirstWriter(rows, bucket) ==
    LET pairs == RangePairs(rows)
        hits == Claimants(pairs, bucket)
    IN  IF hits = {} THEN Null ELSE parseOdds(pairs[Min(hits)].v)

CompiledRangeHome == get(compiled, <<s_moneylinemovement, s_range_home>>)

\* C15: each bucket of the reduced range is the parsed value of the first
\* pair, in input order, whose label contains the bucket's name; no later
\* row overwrites it.
C15_FirstWriterWins ==
    (pc = "returned" /\ HomeRangeRows # <<>>) =>
        \A bucket \in Buckets :
            Prop(CompiledRangeHome, bucket) = FirstWriter(HomeRangeRows, bucket)

\* Two pairs claim the bucket with different values.
Conflict(rows, bucket) ==
    LET pairs == RangePairs(rows)
    IN  \E i, j \in Claimants(pairs, bucket) :
            parseOdds(pairs[i].v) # parseOdds(pairs[j].v)

\* Every order of the rows.
Reorderings(rows) ==
    {[i \in 1..Len(rows) |-> rows[f[i]]] : f \in Permutations(1..Len(rows))}

\* C16: when no bucket is claimed with two different values, every
\* reordering of the rows reduces to the same range; when a bucket is, the
\* pair first in input order decides it.
C16_OrderIndependence ==
    (pc = "returned" /\ HomeRangeRows # <<>>) =>
        /\ (\A bucket \in Buckets : ~Conflict(HomeRangeRows, bucket)) =>
              \A rows \in Reorderings(HomeRangeRows) :
                  buildRangeFromRows(Arr(rows)) = CompiledRangeHome
        /\ \A bucket \in Buckets :
              Conflict(HomeRangeRows, bucket) =>
                  Prop(CompiledRangeHome, bucket)
                      = FirstWriter(HomeRangeRows, bucket)

-----------------------------------------------------------------------------
(* The money line series and its current value *)

\* The rows of the money line history of the input, as the converter finds
\* them.
HistoryRows == mlRawHistory(input)

CompiledHistory == get(compiled, <<s_moneylinemovement, s_history>>).el
CompiledCurrent == get(compiled, <<s_moneylinemovement, s_current>>)

\* A marker row: its label contains historic_line_movement, in any case.
MarkerRow(row) ==
    /\ Truthy(Prop(row, s_label))
    /\ includes(toLowerCase(ToStringJS(Prop(row, s_label))), MarkerText)

\* The point a row gives in this conversion.
PointOfRow(row) == mlPoint(row, HOME_ABBR, AWAY_ABBR, SEASON_YEAR, now)

\* The points are the points of rows that are not markers, taken from the
\* rows in their order.
RECURSIVE OrderedSelection(_, _)
OrderedSelection(points, rows) ==
    IF points = <<>> THEN TRUE
    ELSE IF rows = <<>> THEN FALSE
    ELSE IF ~MarkerRow(Head(rows)) /\ Head(points) = PointOfRow(Head(rows))
    THEN OrderedSelection(Tail(points), Tail(rows))
    ELSE OrderedSelection(points, Tail(rows))

\* C17: the series of a history with marker rows holds no marker row, and
\* its points stand in the order of their rows in the input array.
C17_MarkersExcludedOrderKept ==
    pc = "returned" => OrderedSelection(CompiledHistory, HistoryRows)

C17_Witness ==
    /\ pc = "returned"
    /\ input = SeriesRoot(<<rowCurrent160, rowMarker, rowNov150>>)
    /\ Len(CompiledHistory) = 2
    /\ Prop(CompiledHistory[2], s_label) = Str(s_Nov_16_12_18_PM)

\* { home, away } of a point of the series
OddsOfPoint(point) ==
    Obj(<<KV(s_home, Prop(point, s_home)), KV(s_away, Prop(point, s_away))>>)

\* The original label of a row equals "current" in any case.
LabelledCurrent(row) ==
    LET label == Or4(Prop(row, s_time_stamp), Prop(row, s_timestamp),
                     Prop(row, s_label), Null)
    IN  Truthy(label) /\ toLowerCase(ToStringJS(label)) = <<"c", "u", "r", "r", "e", "n", "t">>

C19_Input == SeriesRoot(<<rowCurrent160, rowNov150>>)

\* C19: the two-row history of the end-to-end scenario, with home BUF, away
\* TB and season 2021, gives current {home: -160, away: 140}, a history of
\* exactly the two rows in input order, and the timestamp
\* 2021-11-16T12:18:00Z for the second.
C19_EndToEnd ==
    (pc # "ready" /\ input = C19_Input /\ HOME_ABBR = BUF /\ AWAY_ABBR = TB
        /\ SEASON_YEAR = IntV(2021)) =>
        /\ pc = "returned"
        /\ CompiledCurrent = Obj(<<KV(s_home, IntV(0 - 160)), KV(s_away, IntV(140))>>)
        /\ Len(CompiledHistory) = 2
        /\ Prop(CompiledHistory[1], s_label) = Str(s_Current)
        /\ Prop(CompiledHistory[1], s_home) = IntV(0 - 160)
        /\ Prop(CompiledHistory[2], s_home) = IntV(0 - 150)
        /\ Prop(CompiledHistory[2], s_away) = IntV(130)
        /\ Prop(CompiledHistory[2], s_timestamp) = Str(IsoExample)

C19_Witness ==
    /\ pc = "returned"
    /\ input = C19_Input
    /\ SEASON_YEAR = IntV(2021)
    /\ Len(CompiledHistory) = 2

-----------------------------------------------------------------------------
(* The input of a conversion *)

-----------------------------------------------------------------------------
(* Two conversions of one document *)

\* The call of the state made again at instant t.
CallAt(t) == convertCompiledNFLObject(input, HOME_ABBR, AWAY_ABBR, SEASON_YEAR, t)

\* A compiled document without its meta.generated_at.
WithoutGeneratedAt(doc) ==
    IF doc.t = "obj" /\ Prop(doc, s_meta).t = "obj"
    THEN SetKey(doc, s_meta, SetKey(Prop(doc, s_meta), s_generated_at, Null))
    ELSE doc

-----------------------------------------------------------------------------
(* The two sides of a point *)

\* The home and the away value a row parses to in this conversion.
HomeOfRow(row) == parseOdds(getTeamField(row, HOME_ABBR))
AwayOfRow(row) == parseOdds(getTeamField(row, AWAY_ABBR))

\* The rows of the history, markers apart, with at least one side.
SidedRows ==
    {i \in 1..Len(HistoryRows) :
        /\ ~MarkerRow(HistoryRows[i])
        /\ (HomeOfRow(HistoryRows[i]) # Null \/ AwayOfRow(HistoryRows[i]) # Null)}

\* C22: every point of the money line history has a home or an away value;
\* the rows whose two values parse to null are dropped, and the rows with
\* at least one value, one side alone included, are all kept.
C22_OneSideAtLeast ==
    pc = "returned" =>
        /\ \A i \in 1..Len(CompiledHistory) :
               \/ Prop(CompiledHistory[i], s_home) # Null
               \/ Prop(CompiledHistory[i], s_away) # Null
        /\ Len(CompiledHistory) = Cardinality(SidedRows)

\* A row with the home side alone was kept and a row without odds dropped.
C22_Witness ==
    /\ pc = "returned"
    /\ Len(HistoryRows) = 2
    /\ \E i \in 1..2 :
           /\ HomeOfRow(HistoryRows[i]) # Null
           /\ AwayOfRow(HistoryRows[i]) = Null
    /\ \E i \in 1..2 :
           /\ ~MarkerRow(HistoryRows[i])
           /\ HomeOfRow(HistoryRows[i]) = Null
           /\ AwayOfRow(HistoryRows[i]) = Null
    /\ Len(CompiledHistory) = 1
    /\ Prop(CompiledHistory[1], s_away) = Null

-----------------------------------------------------------------------------
(* The columns of a money line history *)

ReservedKeys == {s_time_stamp, s_timestamp, s_label}

\* The keys of a row other than time stamp, timestamp and label, in order.
NonReservedKeys(row) == SelectSeq(Keys(row), LAMBDA k : k \notin ReservedKeys)

\* Every key of every row of the history.
AllKeys == UNION {{Keys(HistoryRows[i])[j] : j \in 1..Len(Keys(HistoryRows[i]))} :
                     i \in 1..Len(HistoryRows)}

\* The points of the history are the rows, markers apart, that have a value
\* in column hk or ak, each with home read from hk and away from ak.
ReadFrom(hk, ak) ==
    LET kept == SelectSeq(HistoryRows,
                    LAMBDA r : /\ ~MarkerRow(r)
                               /\ \/ parseOdds(Prop(r, hk)) # Null
                                  \/ parseOdds(Prop(r, ak)) # Null)
    IN  /\ Len(CompiledHistory) = Len(kept)
        /\ \A i \in 1..Len(kept) :
               /\ Prop(CompiledHistory[i], s_home) = parseOdds(Prop(kept[i], hk))
               /\ Prop(CompiledHistory[i], s_away) = parseOdds(Prop(kept[i], ak))

\* C23: the home and the away column of a history are chosen once: there
\* are two keys from which home and away are read in every row of the array.
C23_StableColumns ==
    pc = "returned" => \E hk, ak \in AllKeys \cup {<<>>} : ReadFrom(hk, ak)

\* The keys of a row equal to an abbreviation up to letter case, in order.
ColumnsOf(row, abbr) ==
    IF Truthy(abbr) /\ abbr.t = "str"
    THEN SelectSeq(Keys(row), LAMBDA k : toLowerCase(k) = toLowerCase(abbr.s))
    ELSE <<>>

\* The rows of the history with at least 2 keys that are not reserved.
TwoColumnRows == {i \in 1..Len(HistoryRows) : Len(NonReservedKeys(HistoryRows[i])) >= 2}

\* C24: when no row has a column named by an abbreviation, home and away
\* are read from the second and the first non-reserved key of the first
\* row that has 2 of them, in every row, the rows before that one too.
C24_PositionalInference ==
    (/\ pc = "returned"
     /\ TwoColumnRows # {}
     /\ \A i \in 1..Len(HistoryRows) :
            /\ ColumnsOf(HistoryRows[i], HOME_ABBR) = <<>>
            /\ ColumnsOf(HistoryRows[i], AWAY_ABBR) = <<>>) =>
        LET inferred == NonReservedKeys(HistoryRows[Min(TwoColumnRows)])
        IN  ReadFrom(inferred[2], inferred[1])

\* The value of a row in its first column named by the abbreviation up to
\* letter case, parsed; null without such a column.
NamedValue(row, abbr) ==
    IF ColumnsOf(row, abbr) = <<>> THEN Null
    ELSE parseOdds(Prop(row, ColumnsOf(row, abbr)[1]))

\* The rows that are not markers.
DataRows == {i \in 1..Len(HistoryRows) : ~MarkerRow(HistoryRows[i])}

\* C25: when the first data row has a column named by homeAbbr and one
\* named by awayAbbr up to letter case, home and away are read from the
\* columns so named, not from the columns by their position.
C25_NamedColumns ==
    (/\ pc = "returned"
     /\ DataRows # {}
     /\ ColumnsOf(HistoryRows[Min(DataRows)], HOME_ABBR) # <<>>
     /\ ColumnsOf(HistoryRows[Min(DataRows)], AWAY_ABBR) # <<>>) =>
        LET kept == SelectSeq(HistoryRows,
                        LAMBDA r : /\ ~MarkerRow(r)
                                   /\ \/ NamedValue(r, HOME_ABBR) # Null
                                      \/ NamedValue(r, AWAY_ABBR) # Null)
        IN  /\ Len(CompiledHistory) = Len(kept)
            /\ \A i \in 1..Len(kept) :
                   /\ Prop(CompiledHistory[i], s_home) = NamedValue(kept[i], HOME_ABBR)
                   /\ Prop(CompiledHistory[i], s_away) = NamedValue(kept[i], AWAY_ABBR)

\* The first row names its columns buf and tb: with home BUF, home was read
\* from buf, which by position is the away column.
C25_Witness ==
    /\ pc = "returned"
    /\ input = SeriesRoot(<<rowCurrent, rowNov>>)
    /\ HOME_ABBR = BUF
    /\ AWAY_ABBR = TB
    /\ Len(CompiledHistory) = 2
    /\ Prop(CompiledHistory[1], s_home) = parseOdds(Prop(rowCurrent, s_buf))
    /\ Prop(CompiledHistory[1], s_home) = IntV(0 - 155)
    /\ NonReservedKeys(rowCurrent)[1] = s_buf

-----------------------------------------------------------------------------
(* The spread and the totals series *)

\* The rows of the spread and of the totals history of the input, as the
\* converter finds them.
SpreadRows ==
    RowsOf(findSection(input, s_Spread_History, s_pointspreadlinemovement),
           s_pointspreadlinemovement)
TotalsRows ==
    RowsOf(findSection(input, s_Totals_History, s_overunderlinemovement),
           s_overunderlinemovement)

CompiledSpreadHistory == get(compiled, <<s_pointspreadlinemovement, s_spread_history>>).el
CompiledTotalsHistory == get(compiled, <<s_overunderlinemovement, s_totals_history>>).el
CompiledCurrentSpread == get(compiled, <<s_pointspreadlinemovement, s_current_spread>>)
CompiledCurrentTotal == get(compiled, <<s_overunderlinemovement, s_current_total>>)

\* The first present of the fields time stamp, timestamp and label of a row.
FirstPresentLabel(row) ==
    Or4(Prop(row, s_time_stamp), Prop(row, s_timestamp), Prop(row, s_label), Null)

\* The label a point has when its row is labelled by the value raw.
LabelGiven(raw) == Prop(parseTimestampLabel(raw, SEASON_YEAR, now), s_label)

\* C26: in the money line, the spread and the totals series the label of
\* every point is the first present of time stamp, timestamp and label of
\* its row, in this priority.
C26_LabelPriority ==
    pc = "returned" =>
        LET kept == mlKeptRows(HistoryRows, HOME_ABBR, AWAY_ABBR)
        IN  /\ \A i \in 1..Len(CompiledHistory) :
                   Prop(CompiledHistory[i], s_label)
                       = LabelGiven(FirstPresentLabel(kept[i]))
            /\ \A i \in 1..Len(CompiledSpreadHistory) :
                   Prop(CompiledSpreadHistory[i], s_label)
                       = LabelGiven(FirstPresentLabel(SpreadRows[i]))
            /\ \A i \in 1..Len(CompiledTotalsHistory) :
                   Prop(CompiledTotalsHistory[i], s_label)
                       = LabelGiven(FirstPresentLabel(TotalsRows[i]))

\* The value of a current row of a series, given the labels of its rows as
\* the extractor reads them; the value of the first row without one.
CurrentRowDecides(labels, values, current) ==
    LET cur == {i \in 1..Len(labels) : IsCurrentLabel(labels[i])}
    IN  /\ cur # {} => \E i \in cur : current = values[i]
        /\ (cur = {} /\ Len(values) > 0) => current = values[1]

\* C29: current_spread and current_total are the value of a row labelled
\* "current" in any case when the history has one, a null value included,
\* and the value of the first row only when it has none.
C29_CurrentRowDecides ==
    pc = "returned" =>
        /\ CurrentRowDecides(
               [i \in 1..Len(SpreadRows) |-> spLabel(SpreadRows[i])],
               [i \in 1..Len(SpreadRows) |-> Prop(CompiledSpreadHistory[i], s_spread)],
               CompiledCurrentSpread)
        /\ CurrentRowDecides(
               [i \in 1..Len(TotalsRows) |-> ouLabel(TotalsRows[i])],
               [i \in 1..Len(TotalsRows) |-> Prop(CompiledTotalsHistory[i], s_total)],
               CompiledCurrentTotal)

-----------------------------------------------------------------------------
(* The team context exchanged *)

\* The conversion of the state with homeAbbr and awayAbbr exchanged.
Exchanged == convertCompiledNFLObject(input, AWAY_ABBR, HOME_ABBR, SEASON_YEAR, now).v

\* A record with its home and its away value exchanged.
SwapSides(o) ==
    Obj([i \in 1..Len(o.kv) |->
            IF o.kv[i].k = s_home THEN KV(s_home, Prop(o, s_away))
            ELSE IF o.kv[i].k = s_away THEN KV(s_away, Prop(o, s_home))
            ELSE o.kv[i]])

SwapEach(rows) == [i \in 1..Len(rows) |-> SwapSides(rows[i])]

CompiledComparison == get(compiled, <<s_powerratings, s_comparison_table>>).el

\* C30: the conversion of the same document with homeAbbr and awayAbbr
\* exchanged has the same points and rows with home and away exchanged, in
\* the money line history, in its current value and in the comparison
\* table of the power ratings.
C30_RolesByContext ==
    (pc = "returned" /\ Exchanged # Throw) =>
        /\ get(Exchanged, <<s_moneylinemovement, s_history>>).el
              = SwapEach(CompiledHistory)
        /\ get(Exchanged, <<s_moneylinemovement, s_current>>)
              = SwapSides(CompiledCurrent)
        /\ get(Exchanged, <<s_powerratings, s_comparison_table>>).el
              = SwapEach(CompiledComparison)

-----------------------------------------------------------------------------
(* The timestamps of labels of the two grammars *)

\* The number written at positions a..b of s, or -1 when a character there
\* is no digit.
FieldAt(s, a, b) ==
    IF \A i \in a..b : s[i] \in Digits THEN DigitsToNat(Sub(s, a, b)) ELSE 0 - 1

\* YYYY-MM-DDTHH:MM:SSZ with month 01-12, day 01-31, hour 00-23, minute and
\* second 00-59.
WellFormedUTC(s) ==
    /\ Len(s) = 20
    /\ s[5] = "-" /\ s[8] = "-" /\ s[11] = "T" /\ s[14] = ":" /\ s[17] = ":"
    /\ s[20] = "Z"
    /\ FieldAt(s, 1, 4) >= 0
    /\ FieldAt(s, 6, 7) \in 1..12
    /\ FieldAt(s, 9, 10) \in 1..31
    /\ FieldAt(s, 12, 13) \in 0..23
    /\ FieldAt(s, 15, 16) \in 0..59
    /\ FieldAt(s, 18, 19) \in 0..59

\* A label of one of the two grammars.
OfAGrammar(label) ==
    /\ label.t = "str"
    /\ MatchMonthName(trim(label.s)).ok \/ MatchMonthDay(trim(label.s)).ok

\* C28: the timestamp of a label of one of the two grammars, parsed with a
\* season year, is a well-formed UTC date-time with its fields in range,
\* and its year is the season year.
C28_WellFormedTimestamp ==
    (pc = "returned" /\ OfAGrammar(LabelOf(arg)) /\ Truthy(SEASON_YEAR)) =>
        /\ Prop(ret, s_timestamp).t = "str"
        /\ WellFormedUTC(Prop(ret, s_timestamp).s)
        /\ FieldAt(Prop(ret, s_timestamp).s, 1, 4) = SEASON_YEAR.n

-----------------------------------------------------------------------------
(* The structural search of the command line script *)

\* Object.keys(v) of an object or an array
ownKeys(v) ==
    IF v.t = "arr" THEN [i \in 1..Len(v.el) |-> NatToDigits(i - 1)] ELSE Keys(v)

\* The values under Object.keys(v), in the same order.
ownValues(v) ==
    IF v.t = "arr" THEN v.el
    ELSE IF v.t = "obj" THEN [i \in 1..Len(v.kv) |-> v.kv[i].v]
    ELSE <<>>

\* walk(obj, fn, path): the nodes fn is called with, in the order of the
\* calls, each with the last element of its path ('' for the root).
RECURSIVE walk(_, _)
walk(obj, lastKey) ==
    IF obj.t \notin {"obj", "arr"} THEN <<>>
    ELSE <<[node |-> obj, lastKey |-> lastKey]>>
             \o Flatten([i \in 1..Len(ownValues(obj)) |->
                            walk(ownValues(obj)[i], ownKeys(obj)[i])])

\* /(^|[^a-z])money\s*line([^a-z]|$)/i at position p of a lower case s, q
\* being where "line" must stand
moneyLineAt(s, p, q) ==
    /\ p = 1 \/ s[p - 1] \notin Lowers
    /\ StartsAt(s, p, <<"m", "o", "n", "e", "y">>)
    /\ StartsAt(s, q, <<"l", "i", "n", "e">>)
    /\ q + 4 > Len(s) \/ s[q + 4] \notin Lowers

\* The test of the first pass on String(path[path.length - 1] ?? '')
isMoneyLineHistoryKey(lastKey) ==
    /\ \E p \in 1..Len(lastKey) :
           moneyLineAt(toLowerCase(lastKey), p,
                       p + 5 + SpanLen(toLowerCase(lastKey), p + 5, Spaces))
    /\ includes(toLowerCase(lastKey), s_history)

\* /^(time stamp|timestamp|label)$/i.test(k)
isLabelKey(k) == toLowerCase(k) \in {s_time_stamp, s_timestamp, s_label}

\* The test of the second pass, given the elements of the array that are
\* objects (or arrays), in order.
hasHistoryShape_first(objects) ==
    /\ objects # <<>>
    /\ \E i \in 1..Len(ownKeys(objects[1])) : isLabelKey(ownKeys(objects[1])[i])
    /\ Len(SelectSeq(ownKeys(objects[1]), LAMBDA k : ~isLabelKey(k))) >= 2

hasHistoryShape(node) ==
    hasHistoryShape_first(SelectSeq(node.el, LAMBDA v : v.t \in {"obj", "arr"}))

findMoneyLineHistory_pick(byKey, byShape) ==
    IF byKey # <<>> THEN byKey[1].node
    ELSE IF byShape # <<>> THEN byShape[1].node
    ELSE Null

findMoneyLineHistory_arrays(arrays) ==
    findMoneyLineHistory_pick(
        SelectSeq(arrays, LAMBDA a : isMoneyLineHistoryKey(a.lastKey)),
        SelectSeq(arrays, LAMBDA a : hasHistoryShape(a.node)))

\* one pass: the first array that matches by its key or by its shape
findMoneyLineHistory_onePass(root) ==
    findMoneyLineHistory_pick(
        SelectSeq(walk(root, <<>>),
                  LAMBDA a : /\ a.node.t = "arr"
                             /\ \/ isMoneyLineHistoryKey(a.lastKey)
                                \/ hasHistoryShape(a.node)),
        <<>>)

findMoneyLineHistory(root) ==
    findMoneyLineHistory_arrays(
        SelectSeq(walk(root, <<>>), LAMBDA a : a.node.t = "arr"))

\* Documents to search: two arrays, one under a key of the root and one
\* under a key of an object of the root, in either order, and roots that
\* are no objects.
SearchKeys ==
    {s_Money_Line_History, s_moneyline_history, s_moneylinehistory,
     s_Money_Line, s_history, s_data}

SearchArrays ==
    {Arr(<<rowNov>>), Arr(<<rowCurrent>>), Arr(<<IntV(5), rowMirror>>),
     Arr(<<rowSlash>>), Arr(<<>>), Arr(<<Arr(<<rowNov>>)>>)}

SearchRoots ==
    {Obj(<<KV(ka, a), KV(s_raw, Obj(<<KV(kb, b)>>))>>) :
        ka \in SearchKeys, kb \in SearchKeys, a \in SearchArrays, b \in SearchArrays}
    \cup {Obj(<<KV(s_raw, Obj(<<KV(kb, b)>>)), KV(ka, a)>>) :
        ka \in SearchKeys, kb \in SearchKeys, a \in SearchArrays, b \in SearchArrays}
    \cup {Null, Undef, IntV(7), Str(s_abc), Obj(<<>>), Arr(<<rowNov>>),
          Arr(<<Obj(<<KV(s_Money_Line_History, Arr(<<rowSlash>>))>>), rowNov>>)}

InitSearch ==
    /\ pc = "ready"
    /\ arg \in SearchRoots
    /\ ret = Undef
    /\ input = Undef
    /\ HOME_ABBR = Undef
    /\ AWAY_ABBR = Undef
    /\ SEASON_YEAR = Undef
    /\ now = 0
    /\ done = <<>>
    /\ part = <<>>
    /\ warnings = <<>>
    /\ compiled = Undef

CallFindMoneyLineHistory ==
    /\ pc = "ready"
    /\ pc' = "returned"
    /\ ret' = findMoneyLineHistory(arg)
    /\ UNCHANGED <<arg, convVars>>

NextSearch == CallFindMoneyLineHistory

SpecSearch == InitSearch /\ [][NextSearch]_vars

\* The places of a document that walk visits, each as the positions of the
\* steps from the root; the value and the key at a place.
RECURSIVE PlacesOf(_)
PlacesOf(v) ==
    IF v.t \notin {"obj", "arr"} THEN {}
    ELSE {<<>>} \cup UNION {{<<i>> \o q : q \in PlacesOf(ownValues(v)[i])} :
                               i \in 1..Len(ownValues(v))}

RECURSIVE ValueAt(_, _)
ValueAt(v, place) ==
    IF place = <<>> THEN v ELSE ValueAt(ownValues(v)[Head(place)], Tail(place))

RECURSIVE KeyAt(_, _)
KeyAt(v, place) ==
    IF place = <<>> THEN <<>>
    ELSE IF Len(place) = 1 THEN ownKeys(v)[place[1]]
    ELSE KeyAt(ownValues(v)[Head(place)], Tail(place))

\* Pre-order: a place comes before the places below it and before the
\* places at and below its later siblings.
Before(p, q) ==
    \/ Len(p) < Len(q) /\ SubSeq(q, 1, Len(p)) = p
    \/ \E i \in 1..Min({Len(p), Len(q)}) :
           /\ SubSeq(p, 1, i - 1) = SubSeq(q, 1, i - 1)
           /\ p[i] < q[i]

FirstPlace(S) == CHOOSE p \in S : \A q \in S \ {p} : Before(p, q)

ArrayPlaces == {p \in PlacesOf(arg) : ValueAt(arg, p).t = "arr"}
KeyPlaces == {p \in ArrayPlaces : isMoneyLineHistoryKey(KeyAt(arg, p))}
ShapePlaces == {p \in ArrayPlaces : hasHistoryShape(ValueAt(arg, p))}

====
